---- MODULE Spec2Model ----
(***************************************************************************)
(* A model of the Go runtime hash map (src/src/runtime/map.go).            *)
(*                                                                         *)
(* Memory is a sequence of buckets, mem; a bucket pointer is an index into *)
(* it and 0 is nil.  A bucket array is a run of consecutive addresses, so  *)
(* add(h.buckets, i*bucketsize) is h.buckets + i.  A cell pointer is the   *)
(* record [b |-> bucket address, i |-> cell index]; NilPtr is nil and      *)
(* ZeroValPtr is &zeroVal[0].                                              *)
(*                                                                         *)
(* Every function of map.go that changes the table is an operator from a   *)
(* table state s = [h |-> header, mem |-> memory, fatal |-> the message of *)
(* a throw, "" when none] to the table state it leaves.                    *)
(*                                                                         *)
(* A local of the code that holds the result of a call is bound once, as   *)
(* CHOOSE r \in {body : x \in {call}} : TRUE, which is body with x the     *)
(* value of the call; LET is kept for locals that are plain expressions.   *)
(*                                                                         *)
(* Three specifications: Spec (calls one after the other), SpecIter (a     *)
(* range loop with writes between its steps) and SpecConc (two goroutines  *)
(* whose calls interleave at their accesses to h.flags).                   *)
(***************************************************************************)
EXTENDS Integers, Sequences, FiniteSets, TLC

VARIABLES
    t,       \* the maptype descriptor of the table (fixed at construction)
    h,       \* the hmap header
    mem,     \* the heap of buckets
    fatal,   \* message of the throw that ended the process, "" while it runs
    script,  \* the workload still to be driven: a sequence of <<op, key, elem>>
    budget,  \* the number of free calls the workload may still make
    shadow,  \* history: for each key the elem last put, 0 when deleted/never put;
             \* for a NaN key object the number of entries put with it
    ret,     \* result of the last call returned: [op, key, ptr, ok, panic]
    it,      \* the hiter of the running range loop
    seen,    \* history: keys yielded since mapiterinit, as a sequence
    snap,    \* history: the table's content when mapiterinit ran
    iterlog, \* history of the range loop: [started, removed, written, after]
    procs,   \* the goroutines of the step-wise specification and their positions
    grown,   \* history: the calls returned since the grow in progress began
    mu,      \* the sync.Mutex of the lock specification: [state, sema]
    lk,      \* the goroutines that lock and unlock mu and their positions
    ctxs,    \* the contexts made by WithCancel and WithDeadline
    cgs,     \* the goroutines that call into package context: their call stacks
    now      \* the clock that the deadlines are compared with

\* the variables of package context
ctxvars == <<ctxs, cgs, now>>

\* the variables of the lock and context specifications, which the map
\* leaves alone
others == <<mu, lk, ctxvars>>

vars == <<t, h, mem, fatal, script, budget, shadow, ret, it, seen, snap, iterlog, procs,
          grown, mu, lk, ctxs, cgs, now>>

----------------------------------------------------------------------------
(* Constants of map.go *)

bucketCntBits == 3
bucketCnt == 8
loadFactorNum == 13
loadFactorDen == 2

emptyRest == 0
emptyOne == 1
evacuatedX == 2
evacuatedY == 3
evacuatedEmpty == 4
minTopHash == 5

iterator == 1
oldIterator == 2
hashWriting == 4
sameSizeGrow == 8

\* sys.PtrSize of a 32-bit build; hashes are uintptr, 8*PtrSize bits wide
PtrSize == 4

\* noCheck = 1<<(8*sys.PtrSize) - 1: larger than every bucket index; the model
\* keeps it outside the bucket indices as -1
noCheck == 0 - 1

\* var m sync.Mutex: the zero value is an unlocked mutex
ZeroMutex == [state |-> 0, sema |-> 0]

NilPtr == [b |-> 0, i |-> 0]
ZeroValPtr == [b |-> 0 - 1, i |-> 0]

Cells == 0 .. (bucketCnt - 1)

RECURSIVE Pow2(_)
Pow2(n) == IF n = 0 THEN 1 ELSE 2 * Pow2(n - 1)

\* x & bit # 0 for a single-bit mask
HasBit(x, bit) == (x \div bit) % 2 = 1
SetBit(x, bit) == IF HasBit(x, bit) THEN x ELSE x + bit
ClearBit(x, bit) == IF HasBit(x, bit) THEN x - bit ELSE x
XorBit(x, bit) == IF HasBit(x, bit) THEN x - bit ELSE x + bit

isEmpty(x) == x <= emptyOne

bucketShift(b) == Pow2(b % (PtrSize * 8))

bucketMask(b) == bucketShift(b) - 1

\* hash & bucketMask(b)
MaskHash(hash, b) == hash % bucketShift(b)

\* faulty variant of tophash: the top byte of the hash as it is
tophashRaw(hash) == hash \div Pow2(PtrSize * 8 - 8)

tophash(hash) ==
    LET top == hash \div Pow2(PtrSize * 8 - 8)
    IN  IF top < minTopHash THEN top + minTopHash ELSE top

evacuated(m, b) ==
    LET x == m[b].tophash[0] IN x > emptyOne /\ x < minTopHash

----------------------------------------------------------------------------
(* The key type: the plug-in hasher and equal of the type descriptor *)

\* Bounds of the workload
NKeys == 36
MaxElem == 2

Keys == 1 .. NKeys
Elems == 1 .. MaxElem

\* Bound on the key objects that hold a NaN
MaxNaN == 10

\* the key objects above NaNBase hold a NaN: k != k for them
NaNBase == 100

NaNs == (NaNBase + 1) .. (NaNBase + MaxNaN)

IsNaN(key) == key > NaNBase

AllKeys == Keys \cup NaNs

\* t.hasher(key, h.hash0) of a key equal to itself, for the fixed seed of
\* this table: the low bits spread the keys over the buckets, the high byte
\* repeats every 16 keys and falls below minTopHash for some keys
keyhash(key) == ((7 * key) % 16) * Pow2(PtrSize * 8 - 8) + key

\* the hash of a NaN is not repeatable: every call of t.hasher draws anew.
\* The draw is taken from the sequence of the key object c, at the place
\* call; the key objects of the workload range over the sequences.
nanhash(c, call) == keyhash(1 + ((c * (2 * call + 1) + 3 * call) % 32))

\* t.hasher(key, h.hash0) where a NaN takes the draw numbered call
hasherAt(key, call) ==
    IF IsNaN(key) THEN nanhash(key - NaNBase, call) ELSE keyhash(key)

\* t.hasher(key, h.hash0) in a lookup, mapassign and mapdelete
hasher(key) == hasherAt(key, 0)

\* faulty variant of t.key.equal: a NaN equal to itself
equalReflexive(k1, k2) == k1 = k2

\* t.key.equal
equal(k1, k2) == k1 = k2 /\ ~IsNaN(k1)

ZeroBucket ==
    [tophash |-> [c \in Cells |-> emptyRest],
     keys |-> [c \in Cells |-> 0],
     elems |-> [c \in Cells |-> 0],
     overflow |-> 0]

\* newarray(t.bucket, n) / newobject(t.bucket): n zeroed buckets at the end
\* of the heap; the address of the first is Len(m) + 1
Alloc(m, n) == m \o [j \in 1 .. n |-> ZeroBucket]

----------------------------------------------------------------------------
(* The type descriptor *)

\* A key whose dynamic type is unhashable: t.hasher panics on it
TrapKey == 0 - 1

\* the runtime panic of t.hasher (a Go panic, recovered by the caller)
hasherPanics(key) == key = TrapKey

\* A key that hashes like the keys 1 and 17 (same bucket, same tophash) and
\* whose comparison with a stored key other than itself panics
EqTrapKey == 49

\* the runtime panic of t.key.equal(key, k), key the caller's and k a stored key
equalPanics(key, k) == key = EqTrapKey /\ k # EqTrapKey

\* what a search returns for the cell when t.key.equal panicked in it
TrapPtr == [b |-> 0 - 2, i |-> 0]

\* map[int]int: buckets hold no pointers, keys are reflexive
IntType == [ptrdata |-> FALSE, reflexivekey |-> TRUE, hashMightPanic |-> FALSE]

\* map[float64]int: buckets hold no pointers, a key may be a NaN
FloatType == [ptrdata |-> FALSE, reflexivekey |-> FALSE, hashMightPanic |-> FALSE]

\* map[interface{}]interface{}: buckets hold pointers, a key may be
\* unhashable or not equal to itself
IfaceType == [ptrdata |-> TRUE, reflexivekey |-> FALSE, hashMightPanic |-> TRUE]

----------------------------------------------------------------------------
(* hmap and mapextra *)

\* a nil *[]*bmap; a registry that exists is the sequence of its buckets
NilReg == <<0>>

NilExtra == [isnil |-> TRUE, overflow |-> NilReg, oldoverflow |-> NilReg, nextOverflow |-> 0]

\* mapextra{}
ZeroExtra == [isnil |-> FALSE, overflow |-> NilReg, oldoverflow |-> NilReg, nextOverflow |-> 0]

growing(hd) == hd.oldbuckets # 0

IsSameSizeGrow(hd) == HasBit(hd.flags, sameSizeGrow)

noldbuckets(hd) ==
    LET oldB == IF IsSameSizeGrow(hd) THEN hd.B ELSE hd.B - 1
    IN  bucketShift(oldB)

oldbucketmask(hd) == noldbuckets(hd) - 1

\* faulty variant of overLoadFactor: a load factor of 13 instead of 13/2
overLoadFactorNoHalf(count, B) ==
    count > bucketCnt /\ count > loadFactorNum * bucketShift(B)

overLoadFactor(count, B) ==
    count > bucketCnt /\ count > loadFactorNum * (bucketShift(B) \div loadFactorDen)

\* faulty variant of tooManyOverflowBuckets: a threshold one bucket higher
tooManyOverflowBucketsStrict(noverflow, B) ==
    LET B2 == IF B > 15 THEN 15 ELSE B
    IN  noverflow > Pow2(B2 % 16)

tooManyOverflowBuckets(noverflow, B) ==
    LET B2 == IF B > 15 THEN 15 ELSE B
    IN  noverflow >= Pow2(B2 % 16)

----------------------------------------------------------------------------
(* Lookup: mapaccess1, mapaccess2, mapaccessK.  Each returns                *)
(* [ptr, ok, kptr, fatal, panic]; the fields a function does not return    *)
(* keep their zero.                                                        *)

Result(ptr, ok, kptr, ftl, pnc) ==
    [ptr |-> ptr, ok |-> ok, kptr |-> kptr, fatal |-> ftl, panic |-> pnc]

\* faulty variant of lookupBucket: a lookup that never searches the old array
lookupBucketNewOnly(hd, m, hash) == hd.buckets + (hash % (bucketMask(hd.B) + 1))

\* the bucket a lookup searches: the old bucket while it is not evacuated
lookupBucket(hd, m, hash) ==
    LET mk == bucketMask(hd.B)
        b == hd.buckets + (hash % (mk + 1))
    IN  IF hd.oldbuckets # 0
        THEN LET m2 == IF ~IsSameSizeGrow(hd) THEN mk \div 2 ELSE mk
                 oldb == hd.oldbuckets + (hash % (m2 + 1))
             IN  IF ~evacuated(m, oldb) THEN oldb ELSE b
        ELSE b

RECURSIVE bucketloop1(_, _, _, _, _)
bucketloop1(m, b, i, key, top) ==
    IF b = 0 THEN ZeroValPtr
    ELSE IF i = bucketCnt THEN bucketloop1(m, m[b].overflow, 0, key, top)
    ELSE IF m[b].tophash[i] # top
         THEN IF m[b].tophash[i] = emptyRest THEN ZeroValPtr
              ELSE bucketloop1(m, b, i + 1, key, top)
    ELSE IF equal(key, m[b].keys[i]) THEN [b |-> b, i |-> i]
    ELSE bucketloop1(m, b, i + 1, key, top)

mapaccess1(tt, hd, m, key) ==
    IF hd.count = 0
    THEN IF tt.hashMightPanic /\ hasherPanics(key)
         THEN Result(NilPtr, FALSE, NilPtr, "", TRUE)
         ELSE Result(ZeroValPtr, FALSE, NilPtr, "", FALSE)
    ELSE IF HasBit(hd.flags, hashWriting)
    THEN Result(NilPtr, FALSE, NilPtr, "concurrent map read and map write", FALSE)
    ELSE IF hasherPanics(key) THEN Result(NilPtr, FALSE, NilPtr, "", TRUE)
    ELSE LET hash == hasher(key)
             b == lookupBucket(hd, m, hash)
         IN  Result(bucketloop1(m, b, 0, key, tophash(hash)), FALSE, NilPtr, "", FALSE)

RECURSIVE bucketloop2(_, _, _, _, _)
bucketloop2(m, b, i, key, top) ==
    IF b = 0 THEN <<ZeroValPtr, FALSE>>
    ELSE IF i = bucketCnt THEN bucketloop2(m, m[b].overflow, 0, key, top)
    ELSE IF m[b].tophash[i] # top
         THEN IF m[b].tophash[i] = emptyRest THEN <<ZeroValPtr, FALSE>>
              ELSE bucketloop2(m, b, i + 1, key, top)
    ELSE IF equal(key, m[b].keys[i]) THEN <<[b |-> b, i |-> i], TRUE>>
    ELSE bucketloop2(m, b, i + 1, key, top)

mapaccess2(tt, hd, m, key) ==
    IF hd.count = 0
    THEN IF tt.hashMightPanic /\ hasherPanics(key)
         THEN Result(NilPtr, FALSE, NilPtr, "", TRUE)
         ELSE Result(ZeroValPtr, FALSE, NilPtr, "", FALSE)
    ELSE IF HasBit(hd.flags, hashWriting)
    THEN Result(NilPtr, FALSE, NilPtr, "concurrent map read and map write", FALSE)
    ELSE IF hasherPanics(key) THEN Result(NilPtr, FALSE, NilPtr, "", TRUE)
    ELSE LET hash == hasher(key)
             b == lookupBucket(hd, m, hash)
             r == bucketloop2(m, b, 0, key, tophash(hash))
         IN  Result(r[1], r[2], NilPtr, "", FALSE)

\* faulty variant of bucketloopK: a search that stops at the end of the first
\* bucket of the chain
RECURSIVE bucketloopKNoOverflow(_, _, _, _, _)
bucketloopKNoOverflow(m, b, i, key, top) ==
    IF b = 0 \/ i = bucketCnt THEN NilPtr
    ELSE IF m[b].tophash[i] # top
         THEN IF m[b].tophash[i] = emptyRest THEN NilPtr
              ELSE bucketloopKNoOverflow(m, b, i + 1, key, top)
    ELSE IF equal(key, m[b].keys[i]) THEN [b |-> b, i |-> i]
    ELSE bucketloopKNoOverflow(m, b, i + 1, key, top)

RECURSIVE bucketloopK(_, _, _, _, _)
bucketloopK(m, b, i, key, top) ==
    IF b = 0 THEN NilPtr
    ELSE IF i = bucketCnt THEN bucketloopK(m, m[b].overflow, 0, key, top)
    ELSE IF m[b].tophash[i] # top
         THEN IF m[b].tophash[i] = emptyRest THEN NilPtr
              ELSE bucketloopK(m, b, i + 1, key, top)
    ELSE IF equal(key, m[b].keys[i]) THEN [b |-> b, i |-> i]
    ELSE bucketloopK(m, b, i + 1, key, top)

\* returns the key cell in kptr and the elem cell in ptr (the same cell index)
mapaccessK(tt, hd, m, key) ==
    IF hd.count = 0
    THEN Result(NilPtr, FALSE, NilPtr, "", FALSE)
    ELSE IF hasherPanics(key) THEN Result(NilPtr, FALSE, NilPtr, "", TRUE)
    ELSE LET hash == hasher(key)
             b == lookupBucket(hd, m, hash)
             c == bucketloopK(m, b, 0, key, tophash(hash))
         IN  Result(c, FALSE, c, "", FALSE)

\* *ptr for an elem pointer; the zero object reads as 0
Deref(m, ptr) == IF ptr.b <= 0 THEN 0 ELSE m[ptr.b].elems[ptr.i]

----------------------------------------------------------------------------
(* Table states and the overflow allocator *)

St(hd, m, ftl) == [h |-> hd, mem |-> m, fatal |-> ftl]

Throw(s, msg) == [s EXCEPT !.fatal = msg]

setoverflow(m, b, ovf) == [m EXCEPT ![b].overflow = ovf]

\* faulty variant of incrnoverflow: the counter is left as it was
incrnoverflowSkipped(hd) == hd

\* faulty variant of incrnoverflow: each overflow bucket is counted twice
incrnoverflowTwice(hd) ==
    IF hd.B < 16 THEN [hd EXCEPT !.noverflow = (hd.noverflow + 2) % 65536] ELSE hd

\* uint16 noverflow; B >= 16 increments with probability 1/(1<<(B-15)), a case
\* the bounded tables never reach (B stays below 16)
incrnoverflow(hd) ==
    IF hd.B < 16 THEN [hd EXCEPT !.noverflow = (hd.noverflow + 1) % 65536] ELSE hd

createOverflow(hd) ==
    LET e1 == IF hd.extra.isnil THEN ZeroExtra ELSE hd.extra
        e2 == IF e1.overflow = NilReg THEN [e1 EXCEPT !.overflow = <<>>] ELSE e1
    IN  [hd EXCEPT !.extra = e2]

\* faulty variant of newoverflow: the last bucket of the pool is handed out
\* with its sentinel link
newoverflowKeepsSentinel(tt, s, b) ==
    LET pooled == ~s.h.extra.isnil /\ s.h.extra.nextOverflow # 0
        po == s.h.extra.nextOverflow
        ovf == IF pooled THEN po ELSE Len(s.mem) + 1
        m1 == IF pooled THEN s.mem ELSE Alloc(s.mem, 1)
        h1 == IF pooled
              THEN IF s.mem[po].overflow = 0
                   THEN [s.h EXCEPT !.extra.nextOverflow = po + 1]
                   ELSE [s.h EXCEPT !.extra.nextOverflow = 0]
              ELSE s.h
        h2 == incrnoverflow(h1)
        h3 == IF ~tt.ptrdata
              THEN LET c == createOverflow(h2)
                   IN  [c EXCEPT !.extra.overflow = Append(c.extra.overflow, ovf)]
              ELSE h2
    IN  [s |-> St(h3, setoverflow(m1, b, ovf), s.fatal), ovf |-> ovf]

\* returns [s |-> the state left, ovf |-> the new overflow bucket]
newoverflow(tt, s, b) ==
    LET pooled == ~s.h.extra.isnil /\ s.h.extra.nextOverflow # 0
        po == s.h.extra.nextOverflow
        ovf == IF pooled THEN po ELSE Len(s.mem) + 1
        m1 == IF pooled
              THEN IF s.mem[po].overflow = 0 THEN s.mem ELSE setoverflow(s.mem, po, 0)
              ELSE Alloc(s.mem, 1)
        h1 == IF pooled
              THEN IF s.mem[po].overflow = 0
                   THEN [s.h EXCEPT !.extra.nextOverflow = po + 1]
                   ELSE [s.h EXCEPT !.extra.nextOverflow = 0]
              ELSE s.h
        h2 == incrnoverflow(h1)
        h3 == IF ~tt.ptrdata
              THEN LET c == createOverflow(h2)
                   IN  [c EXCEPT !.extra.overflow = Append(c.extra.overflow, ovf)]
              ELSE h2
    IN  [s |-> St(h3, setoverflow(m1, b, ovf), s.fatal), ovf |-> ovf]

\* roundupsize of the allocator: the size classes are not part of map.go; the
\* model takes the request as a size class of its own (up = sz)
makeBucketArrayLen(b) ==
    IF b >= 4 THEN bucketShift(b) + bucketShift(b - 4) ELSE bucketShift(b)

\* returns [mem, buckets, nextOverflow]; dirtyalloc = 0 allocates, otherwise
\* the array at dirtyalloc is cleared and reused
makeBucketArray(m, b, dirtyalloc) ==
    LET base == bucketShift(b)
        nbuckets == makeBucketArrayLen(b)
        buckets == IF dirtyalloc = 0 THEN Len(m) + 1 ELSE dirtyalloc
        m1 == IF dirtyalloc = 0
              THEN Alloc(m, nbuckets)
              ELSE [a \in DOMAIN m |->
                      IF a >= dirtyalloc /\ a < dirtyalloc + nbuckets
                      THEN ZeroBucket ELSE m[a]]
        nextOverflow == IF base # nbuckets THEN buckets + base ELSE 0
        m2 == IF base # nbuckets
              THEN setoverflow(m1, buckets + nbuckets - 1, buckets)
              ELSE m1
    IN  [mem |-> m2, buckets |-> buckets, nextOverflow |-> nextOverflow]

\* makemap_small(): a header without buckets
makemap_small ==
    [count |-> 0, flags |-> 0, B |-> 0, noverflow |-> 0, buckets |-> 0,
     oldbuckets |-> 0, nevacuate |-> 0, extra |-> NilExtra]

RECURSIVE hintB(_, _)
hintB(hint, B) == IF overLoadFactor(hint, B) THEN hintB(hint, B + 1) ELSE B

\* makemap(t, hint, nil): returns the table state
makemap(hint) ==
    LET B == hintB(hint, 0)
        h0 == [makemap_small EXCEPT !.B = B]
    IN  IF B # 0
        THEN LET a == makeBucketArray(<<>>, B, 0)
             IN  St([h0 EXCEPT !.buckets = a.buckets,
                                !.extra = IF a.nextOverflow # 0
                                          THEN [ZeroExtra EXCEPT !.nextOverflow = a.nextOverflow]
                                          ELSE NilExtra],
                    a.mem, "")
        ELSE St(h0, <<>>, "")

----------------------------------------------------------------------------
(* Growing: hashGrow, evacuate, advanceEvacuationMark, growWork *)

\* faulty variant of growFlags: a grow that keeps of the flags only those
\* of the grow and of the iterators
growFlagsDropWriting(flags, over) ==
    LET f0 == IF over THEN flags ELSE SetBit(flags, sameSizeGrow)
        f1 == ClearBit(ClearBit(ClearBit(f0, iterator), oldIterator), hashWriting)
    IN  IF HasBit(f0, iterator) THEN SetBit(f1, oldIterator) ELSE f1

\* the flags hashGrow leaves: a grow that does not double is marked
\* sameSizeGrow, and iterator moves to oldIterator (lines 1115-1131)
growFlags(flags, over) ==
    LET f0 == IF over THEN flags ELSE SetBit(flags, sameSizeGrow)
        f1 == ClearBit(ClearBit(f0, iterator), oldIterator)
    IN  IF HasBit(f0, iterator) THEN SetBit(f1, oldIterator) ELSE f1

\* lines 1141-1155: the overflow registry becomes the old one, and the
\* overflow buckets preallocated with the array a become the pool
growExtra(e, a) ==
    LET e1 == IF ~e.isnil /\ e.overflow # NilReg
              THEN [e EXCEPT !.oldoverflow = e.overflow, !.overflow = NilReg]
              ELSE e
    IN  IF a.nextOverflow # 0
        THEN [(IF e1.isnil THEN ZeroExtra ELSE e1) EXCEPT !.nextOverflow = a.nextOverflow]
        ELSE e1

hashGrow(s) ==
    LET over == overLoadFactor(s.h.count + 1, s.h.B)
        bigger == IF over THEN 1 ELSE 0
    IN  CHOOSE g \in
            {IF ~s.h.extra.isnil /\ s.h.extra.overflow # NilReg
                /\ s.h.extra.oldoverflow # NilReg
             THEN Throw(St([s.h EXCEPT !.B = s.h.B + bigger,
                                       !.flags = growFlags(s.h.flags, over),
                                       !.oldbuckets = s.h.buckets, !.buckets = a.buckets,
                                       !.nevacuate = 0, !.noverflow = 0],
                           a.mem, s.fatal),
                        "oldoverflow is not nil")
             ELSE St([s.h EXCEPT !.B = s.h.B + bigger,
                                 !.flags = growFlags(s.h.flags, over),
                                 !.oldbuckets = s.h.buckets, !.buckets = a.buckets,
                                 !.nevacuate = 0, !.noverflow = 0,
                                 !.extra = growExtra(s.h.extra, a)],
                     a.mem, s.fatal) :
                a \in {makeBucketArray(s.mem, s.h.B + bigger, 0)}} : TRUE

bucketEvacuated(hd, m, bucket) == evacuated(m, hd.oldbuckets + bucket)

\* faulty variant of advanceLoop: a cursor that steps over the first
\* unevacuated old bucket it meets
RECURSIVE advanceLoopSteppingOver(_, _, _)
advanceLoopSteppingOver(hd, m, stop) ==
    IF hd.nevacuate # stop /\ bucketEvacuated(hd, m, hd.nevacuate)
    THEN advanceLoopSteppingOver([hd EXCEPT !.nevacuate = hd.nevacuate + 1], m, stop)
    ELSE IF hd.nevacuate + 1 < stop THEN [hd EXCEPT !.nevacuate = hd.nevacuate + 1]
    ELSE hd

RECURSIVE advanceLoop(_, _, _)
advanceLoop(hd, m, stop) ==
    IF hd.nevacuate # stop /\ bucketEvacuated(hd, m, hd.nevacuate)
    THEN advanceLoop([hd EXCEPT !.nevacuate = hd.nevacuate + 1], m, stop)
    ELSE hd

\* faulty variant of advanceEvacuationMark: a release of the old array that
\* leaves the sameSizeGrow flag set
advanceEvacuationMarkKeepFlag(s, newbit) ==
    LET h1 == [s.h EXCEPT !.nevacuate = s.h.nevacuate + 1]
        stop == IF h1.nevacuate + 1024 > newbit THEN newbit ELSE h1.nevacuate + 1024
    IN  CHOOSE s2 \in
            {IF h2.nevacuate = newbit
             THEN [s EXCEPT !.h = [h2 EXCEPT
                        !.oldbuckets = 0,
                        !.extra = IF h2.extra.isnil THEN h2.extra
                                  ELSE [h2.extra EXCEPT !.oldoverflow = NilReg]]]
             ELSE [s EXCEPT !.h = h2] :
                h2 \in {advanceLoop(h1, s.mem, stop)}} : TRUE

advanceEvacuationMark(s, newbit) ==
    LET h1 == [s.h EXCEPT !.nevacuate = s.h.nevacuate + 1]
        stop == IF h1.nevacuate + 1024 > newbit THEN newbit ELSE h1.nevacuate + 1024
    IN  CHOOSE s2 \in
            {IF h2.nevacuate = newbit
             THEN [s EXCEPT !.h = [h2 EXCEPT
                        !.oldbuckets = 0,
                        !.extra = IF h2.extra.isnil THEN h2.extra
                                  ELSE [h2.extra EXCEPT !.oldoverflow = NilReg],
                        !.flags = ClearBit(h2.flags, sameSizeGrow)]]
             ELSE [s EXCEPT !.h = h2] :
                h2 \in {advanceLoop(h1, s.mem, stop)}} : TRUE

\* faulty variant of evacDecision: a doubling grow that sends every cell to
\* the low destination
evacDecisionAlwaysX(tt, hd, top, k2, newbit) ==
    IF ~IsSameSizeGrow(hd)
    THEN LET hash == hasherAt(k2, newbit)
         IN  IF HasBit(hd.flags, iterator) /\ ~tt.reflexivekey /\ ~equal(k2, k2)
             THEN [useY |-> top % 2, top |-> tophash(hash)]
             ELSE [useY |-> 0, top |-> top]
    ELSE [useY |-> 0, top |-> top]

\* the evacuation destination of a cell with tophash top and key k2:
\* [useY, top] as lines 1293-1317 decide them
evacDecision(tt, hd, top, k2, newbit) ==
    IF ~IsSameSizeGrow(hd)
    THEN LET hash == hasherAt(k2, newbit)
         IN  IF HasBit(hd.flags, iterator) /\ ~tt.reflexivekey /\ ~equal(k2, k2)
             THEN [useY |-> top % 2, top |-> tophash(hash)]
             ELSE [useY |-> IF (hash \div newbit) % 2 # 0 THEN 1 ELSE 0, top |-> top]
    ELSE [useY |-> 0, top |-> top]

\* faulty variant of evacuateLoop: an evacuation that leaves the empty cells
\* of the old chain as they are
RECURSIVE evacuateLoopEmptyKept(_, _, _, _, _, _)
evacuateLoopEmptyKept(tt, s, b, i, xy, newbit) ==
    IF s.fatal # "" \/ b = 0 THEN s
    ELSE IF i = bucketCnt
    THEN evacuateLoopEmptyKept(tt, s, s.mem[b].overflow, 0, xy, newbit)
    ELSE LET top == s.mem[b].tophash[i]
         IN  IF isEmpty(top)
             THEN evacuateLoopEmptyKept(tt, s, b, i + 1, xy, newbit)
             ELSE IF top < minTopHash THEN Throw(s, "bad map state")
             ELSE CHOOSE e \in
                      {LET k2 == s.mem[b].keys[i]
                           s1 == [s EXCEPT !.mem[b].tophash[i] = evacuatedX + d.useY]
                           dst == xy[d.useY + 1]
                           full == dst.i = bucketCnt
                       IN  CHOOSE e2 \in
                               {LET db == no.ovf
                                    di == IF full THEN 0 ELSE dst.i
                                IN  evacuateLoopEmptyKept(tt,
                                        [no.s EXCEPT !.mem[db].tophash[di] = d.top,
                                                     !.mem[db].keys[di] = k2,
                                                     !.mem[db].elems[di] = s.mem[b].elems[i]],
                                        b, i + 1,
                                        [xy EXCEPT ![d.useY + 1] = [b |-> db, i |-> di + 1]],
                                        newbit) :
                                   no \in {IF full THEN newoverflow(tt, s1, dst.b)
                                           ELSE [s |-> s1, ovf |-> dst.b]}} : TRUE :
                          d \in {evacDecision(tt, s.h, top, s.mem[b].keys[i], newbit)}} : TRUE

\* the loops of evacuate over the old chain from cell i of bucket b;
\* xy is <<x, y>>, each destination a record [b, i]
RECURSIVE evacuateLoop(_, _, _, _, _, _)
evacuateLoop(tt, s, b, i, xy, newbit) ==
    IF s.fatal # "" \/ b = 0 THEN s
    ELSE IF i = bucketCnt
    THEN evacuateLoop(tt, s, s.mem[b].overflow, 0, xy, newbit)
    ELSE LET top == s.mem[b].tophash[i]
         IN  IF isEmpty(top)
             THEN evacuateLoop(tt, [s EXCEPT !.mem[b].tophash[i] = evacuatedEmpty],
                               b, i + 1, xy, newbit)
             ELSE IF top < minTopHash THEN Throw(s, "bad map state")
             ELSE CHOOSE e \in
                      {LET k2 == s.mem[b].keys[i]
                           s1 == [s EXCEPT !.mem[b].tophash[i] = evacuatedX + d.useY]
                           dst == xy[d.useY + 1]
                           full == dst.i = bucketCnt
                       IN  CHOOSE e2 \in
                               {LET db == no.ovf
                                    di == IF full THEN 0 ELSE dst.i
                                IN  evacuateLoop(tt,
                                        [no.s EXCEPT !.mem[db].tophash[di] = d.top,
                                                     !.mem[db].keys[di] = k2,
                                                     !.mem[db].elems[di] = s.mem[b].elems[i]],
                                        b, i + 1,
                                        [xy EXCEPT ![d.useY + 1] = [b |-> db, i |-> di + 1]],
                                        newbit) :
                                   no \in {IF full THEN newoverflow(tt, s1, dst.b)
                                           ELSE [s |-> s1, ovf |-> dst.b]}} : TRUE :
                          d \in {evacDecision(tt, s.h, top, s.mem[b].keys[i], newbit)}} : TRUE

\* memclrHasPointers(add(b, dataOffset), bucketsize - dataOffset): the keys,
\* the elems and the overflow link of the old bucket; the tophash stays
clearOldBucket(m, b) ==
    [m EXCEPT ![b].keys = [c \in Cells |-> 0],
              ![b].elems = [c \in Cells |-> 0],
              ![b].overflow = 0]

evacuate(tt, s, oldbucket) ==
    LET b == s.h.oldbuckets + oldbucket
        newbit == noldbuckets(s.h)
        x == [b |-> s.h.buckets + oldbucket, i |-> 0]
        y == IF ~IsSameSizeGrow(s.h)
             THEN [b |-> s.h.buckets + oldbucket + newbit, i |-> 0]
             ELSE [b |-> 0, i |-> 0]
    IN  CHOOSE s2 \in
            {IF s1.fatal = "" /\ oldbucket = s1.h.nevacuate
             THEN advanceEvacuationMark(s1, newbit)
             ELSE s1 :
                s1 \in {IF ~evacuated(s.mem, b)
                        THEN CHOOSE e2 \in
                                 {IF e.fatal = "" /\ ~HasBit(e.h.flags, oldIterator)
                                     /\ tt.ptrdata
                                  THEN [e EXCEPT !.mem = clearOldBucket(e.mem, b)]
                                  ELSE e :
                                     e \in {evacuateLoop(tt, s, b, 0, <<x, y>>, newbit)}} : TRUE
                        ELSE s}} : TRUE

\* faulty variant of growWork: grow work that evacuates the bucket of the
\* call only, not the one at the cursor
growWorkTargetOnly(tt, s, bucket) ==
    evacuate(tt, s, bucket % (oldbucketmask(s.h) + 1))

\* faulty variant of growWork: grow work that evacuates the bucket at the
\* cursor only, not the one of the call
growWorkCursorOnly(tt, s, bucket) == evacuate(tt, s, s.h.nevacuate)

\* faulty variant of growWork: a write that goes on to the current array
\* without evacuating anything
growWorkSkipped(tt, s, bucket) == s

growWork(tt, s, bucket) ==
    CHOOSE s2 \in
        {IF s1.fatal = "" /\ growing(s1.h) THEN evacuate(tt, s1, s1.h.nevacuate) ELSE s1 :
            s1 \in {evacuate(tt, s, bucket % (oldbucketmask(s.h) + 1))}} : TRUE

----------------------------------------------------------------------------
(* mapassign, in the pieces a concurrent caller can be between:             *)
(* the entry check, the flag set after hashing, the body, the exit.        *)

writeCheck(s) ==
    IF HasBit(s.h.flags, hashWriting) THEN Throw(s, "concurrent map writes") ELSE s

\* h.flags ^= hashWriting
writeSet(s) == [s EXCEPT !.h.flags = XorBit(s.h.flags, hashWriting)]

\* the exit of mapassign, mapdelete and mapclear
writeDone(s) ==
    IF ~HasBit(s.h.flags, hashWriting) THEN Throw(s, "concurrent map writes")
    ELSE [s EXCEPT !.h.flags = ClearBit(s.h.flags, hashWriting)]

\* faulty variant of assignLoop: a search that keeps the last empty cell it
\* passes as inserti, not the first
RECURSIVE assignLoopLastEmpty(_, _, _, _, _, _)
assignLoopLastEmpty(m, b, i, key, top, ins) ==
    IF i = bucketCnt
    THEN IF m[b].overflow = 0
         THEN [found |-> FALSE, cell |-> NilPtr, ins |-> ins, last |-> b]
         ELSE assignLoopLastEmpty(m, m[b].overflow, 0, key, top, ins)
    ELSE IF m[b].tophash[i] # top
    THEN LET ins2 == IF isEmpty(m[b].tophash[i])
                     THEN [b |-> b, i |-> i] ELSE ins
         IN  IF m[b].tophash[i] = emptyRest
             THEN [found |-> FALSE, cell |-> NilPtr, ins |-> ins2, last |-> b]
             ELSE assignLoopLastEmpty(m, b, i + 1, key, top, ins2)
    ELSE IF equalPanics(key, m[b].keys[i])
    THEN [found |-> FALSE, cell |-> TrapPtr, ins |-> ins, last |-> b]
    ELSE IF ~equal(key, m[b].keys[i])
    THEN assignLoopLastEmpty(m, b, i + 1, key, top, ins)
    ELSE [found |-> TRUE, cell |-> [b |-> b, i |-> i], ins |-> ins, last |-> b]

\* faulty variant of assignLoop: a search that ends at the first empty cell,
\* freed ones included
RECURSIVE assignLoopStopsAtFree(_, _, _, _, _, _)
assignLoopStopsAtFree(m, b, i, key, top, ins) ==
    IF i = bucketCnt
    THEN IF m[b].overflow = 0
         THEN [found |-> FALSE, cell |-> NilPtr, ins |-> ins, last |-> b]
         ELSE assignLoopStopsAtFree(m, m[b].overflow, 0, key, top, ins)
    ELSE IF m[b].tophash[i] # top
    THEN LET ins2 == IF isEmpty(m[b].tophash[i]) /\ ins = NilPtr
                     THEN [b |-> b, i |-> i] ELSE ins
         IN  IF isEmpty(m[b].tophash[i])
             THEN [found |-> FALSE, cell |-> NilPtr, ins |-> ins2, last |-> b]
             ELSE assignLoopStopsAtFree(m, b, i + 1, key, top, ins2)
    ELSE IF equalPanics(key, m[b].keys[i])
    THEN [found |-> FALSE, cell |-> TrapPtr, ins |-> ins, last |-> b]
    ELSE IF ~equal(key, m[b].keys[i])
    THEN assignLoopStopsAtFree(m, b, i + 1, key, top, ins)
    ELSE [found |-> TRUE, cell |-> [b |-> b, i |-> i], ins |-> ins, last |-> b]

\* bucketloop of mapassign: [found, cell, ins, last]; ins is inserti (NilPtr
\* while nil), last the bucket the loop stopped in; cell is TrapPtr when
\* t.key.equal panicked
RECURSIVE assignLoop(_, _, _, _, _, _)
assignLoop(m, b, i, key, top, ins) ==
    IF i = bucketCnt
    THEN IF m[b].overflow = 0
         THEN [found |-> FALSE, cell |-> NilPtr, ins |-> ins, last |-> b]
         ELSE assignLoop(m, m[b].overflow, 0, key, top, ins)
    ELSE IF m[b].tophash[i] # top
    THEN LET ins2 == IF isEmpty(m[b].tophash[i]) /\ ins = NilPtr
                     THEN [b |-> b, i |-> i] ELSE ins
         IN  IF m[b].tophash[i] = emptyRest
             THEN [found |-> FALSE, cell |-> NilPtr, ins |-> ins2, last |-> b]
             ELSE assignLoop(m, b, i + 1, key, top, ins2)
    ELSE IF equalPanics(key, m[b].keys[i])
    THEN [found |-> FALSE, cell |-> TrapPtr, ins |-> ins, last |-> b]
    ELSE IF ~equal(key, m[b].keys[i])
    THEN assignLoop(m, b, i + 1, key, top, ins)
    ELSE [found |-> TRUE, cell |-> [b |-> b, i |-> i], ins |-> ins, last |-> b]

\* whether mapassign starts a grow before it adds a cell (line 731)
needGrow(hd) ==
    ~growing(hd) /\ (overLoadFactor(hd.count + 1, hd.B)
                        \/ tooManyOverflowBuckets(hd.noverflow, hd.B))

\* from the label again to the label done: [s, elem]; elem is TrapPtr when
\* the panic of t.key.equal unwound the call, s the state it left
RECURSIVE assignAgain(_, _, _, _)
assignAgain(tt, s, key, hash) ==
    LET bucket == MaskHash(hash, s.h.B)
        top == tophash(hash)
    IN  CHOOSE a \in
            {IF s1.fatal # "" THEN [s |-> s1, elem |-> NilPtr]
             ELSE CHOOSE a2 \in
                 {IF r.found \/ r.cell = TrapPtr THEN [s |-> s1, elem |-> r.cell]
                  ELSE IF needGrow(s1.h)
                  THEN CHOOSE a3 \in
                           {IF g.fatal # "" THEN [s |-> g, elem |-> NilPtr]
                            ELSE assignAgain(tt, g, key, hash) :
                               g \in {hashGrow(s1)}} : TRUE
                  ELSE CHOOSE a4 \in
                           {LET c == IF r.ins = NilPtr THEN [b |-> no.ovf, i |-> 0]
                                     ELSE r.ins
                            IN  [s |-> [no.s EXCEPT !.mem[c.b].keys[c.i] = key,
                                                    !.mem[c.b].tophash[c.i] = top,
                                                    !.h.count = no.s.h.count + 1],
                                 elem |-> c] :
                               no \in {IF r.ins = NilPtr THEN newoverflow(tt, s1, r.last)
                                       ELSE [s |-> s1, ovf |-> 0]}} : TRUE :
                     r \in {assignLoop(s1.mem, s1.h.buckets + bucket, 0, key, top,
                                       NilPtr)}} : TRUE :
                s1 \in {IF growing(s.h) THEN growWork(tt, s, bucket) ELSE s}} : TRUE

\* lines 658-760, after the flag is set: allocate the first bucket, find or
\* add the cell
assignBody(tt, s, key) ==
    LET s2 == IF s.h.buckets = 0
              THEN [s EXCEPT !.mem = Alloc(s.mem, 1), !.h.buckets = Len(s.mem) + 1]
              ELSE s
    IN  assignAgain(tt, s2, key, hasher(key))

\* faulty variant of mapassign: a put that sets the flag before it hashes
\* the key
mapassignSetFirst(tt, s, key) ==
    LET s1 == writeCheck(s)
    IN  IF s1.fatal # "" THEN [s |-> s1, elem |-> NilPtr, panic |-> FALSE]
        ELSE IF hasherPanics(key)
        THEN [s |-> writeSet(s1), elem |-> NilPtr, panic |-> TRUE]
        ELSE CHOOSE a \in
                 {IF r.s.fatal # "" THEN [s |-> r.s, elem |-> NilPtr, panic |-> FALSE]
                  ELSE IF r.elem = TrapPtr
                  THEN [s |-> r.s, elem |-> NilPtr, panic |-> TRUE]
                  ELSE LET d == writeDone(r.s)
                       IN  [s |-> d, elem |-> IF d.fatal # "" THEN NilPtr ELSE r.elem,
                            panic |-> FALSE] :
                     r \in {assignBody(tt, writeSet(s1), key)}} : TRUE

\* mapassign: [s, elem, panic]
mapassign(tt, s, key) ==
    LET s1 == writeCheck(s)
    IN  IF s1.fatal # "" THEN [s |-> s1, elem |-> NilPtr, panic |-> FALSE]
        ELSE IF hasherPanics(key) THEN [s |-> s, elem |-> NilPtr, panic |-> TRUE]
        ELSE CHOOSE a \in
                 {IF r.s.fatal # "" THEN [s |-> r.s, elem |-> NilPtr, panic |-> FALSE]
                  ELSE IF r.elem = TrapPtr
                  THEN [s |-> r.s, elem |-> NilPtr, panic |-> TRUE]
                  ELSE LET d == writeDone(r.s)
                       IN  [s |-> d, elem |-> IF d.fatal # "" THEN NilPtr ELSE r.elem,
                            panic |-> FALSE] :
                     r \in {assignBody(tt, writeSet(s1), key)}} : TRUE

\* reflect_mapassign: p := mapassign(t, h, key); typedmemmove(t.elem, p, elem)
reflect_mapassign(tt, s, key, elem) ==
    CHOOSE a \in
        {IF r.s.fatal # "" \/ r.panic THEN r
         ELSE [r EXCEPT !.s.mem[r.elem.b].elems[r.elem.i] = elem] :
            r \in {mapassign(tt, s, key)}} : TRUE

----------------------------------------------------------------------------
(* mapdelete *)

\* faulty variant of deleteSearch: a search that takes a freed cell (emptyOne)
\* for the end of the chain
RECURSIVE deleteSearchStopsAtFreed(_, _, _, _, _)
deleteSearchStopsAtFreed(m, b, i, key, top) ==
    IF b = 0 THEN NilPtr
    ELSE IF i = bucketCnt THEN deleteSearchStopsAtFreed(m, m[b].overflow, 0, key, top)
    ELSE IF m[b].tophash[i] # top
         THEN IF isEmpty(m[b].tophash[i]) THEN NilPtr
              ELSE deleteSearchStopsAtFreed(m, b, i + 1, key, top)
    ELSE IF ~equal(key, m[b].keys[i]) THEN deleteSearchStopsAtFreed(m, b, i + 1, key, top)
    ELSE [b |-> b, i |-> i]

\* faulty variant of deleteSearch: a search that takes the cell holding the
\* key object passed in, whatever t.key.equal says of it
RECURSIVE deleteSearchByIdentity(_, _, _, _, _)
deleteSearchByIdentity(m, b, i, key, top) ==
    IF b = 0 THEN NilPtr
    ELSE IF i = bucketCnt THEN deleteSearchByIdentity(m, m[b].overflow, 0, key, top)
    ELSE IF m[b].tophash[i] # top
         THEN IF m[b].tophash[i] = emptyRest THEN NilPtr
              ELSE deleteSearchByIdentity(m, b, i + 1, key, top)
    ELSE IF key # m[b].keys[i] THEN deleteSearchByIdentity(m, b, i + 1, key, top)
    ELSE [b |-> b, i |-> i]

RECURSIVE deleteSearch(_, _, _, _, _)
deleteSearch(m, b, i, key, top) ==
    IF b = 0 THEN NilPtr
    ELSE IF i = bucketCnt THEN deleteSearch(m, m[b].overflow, 0, key, top)
    ELSE IF m[b].tophash[i] # top
         THEN IF m[b].tophash[i] = emptyRest THEN NilPtr
              ELSE deleteSearch(m, b, i + 1, key, top)
    ELSE IF equalPanics(key, m[b].keys[i]) THEN TrapPtr
    ELSE IF ~equal(key, m[b].keys[i]) THEN deleteSearch(m, b, i + 1, key, top)
    ELSE [b |-> b, i |-> i]

\* the bucket of the chain from bOrig whose overflow is c
RECURSIVE prevBucket(_, _, _)
prevBucket(m, b, c) == IF m[b].overflow = c THEN b ELSE prevBucket(m, m[b].overflow, c)

\* faulty variant of emptyRestLoop: a promotion that stops at the first cell
\* of the bucket of the freed cell
RECURSIVE emptyRestLoopOneBucket(_, _, _, _)
emptyRestLoopOneBucket(m, bOrig, b, i) ==
    LET m1 == [m EXCEPT ![b].tophash[i] = emptyRest]
    IN  IF i = 0 THEN m1
        ELSE IF m1[b].tophash[i - 1] # emptyOne THEN m1
        ELSE emptyRestLoopOneBucket(m1, bOrig, b, i - 1)

\* the for loop of lines 857-874: turn the emptyOne run ending at (b, i)
\* into emptyRest
RECURSIVE emptyRestLoop(_, _, _, _)
emptyRestLoop(m, bOrig, b, i) ==
    LET m1 == [m EXCEPT ![b].tophash[i] = emptyRest]
    IN  IF i = 0 /\ b = bOrig THEN m1
        ELSE LET b2 == IF i = 0 THEN prevBucket(m1, bOrig, b) ELSE b
                 i2 == IF i = 0 THEN bucketCnt - 1 ELSE i - 1
             IN  IF m1[b2].tophash[i2] # emptyOne THEN m1
                 ELSE emptyRestLoop(m1, bOrig, b2, i2)

\* faulty variant of notLast: a delete that takes every freed cell for the
\* last of its chain
notLastIgnored(m, b, i) == FALSE

\* whether the freed cell (b, i) is followed by a cell that is not emptyRest
notLast(m, b, i) ==
    IF i = bucketCnt - 1
    THEN m[b].overflow # 0 /\ m[m[b].overflow].tophash[0] # emptyRest
    ELSE m[b].tophash[i + 1] # emptyRest

\* lines 800-879, after the flag is set: evacuate, search, free the cell;
\* [s, panic], panic when t.key.equal panicked in the search
deleteBody(tt, s, key) ==
    LET hash == hasher(key)
        bucket == MaskHash(hash, s.h.B)
    IN  CHOOSE d \in
            {IF s2.fatal # "" THEN [s |-> s2, panic |-> FALSE]
             ELSE CHOOSE d2 \in
                 {IF c = NilPtr \/ c = TrapPtr THEN [s |-> s2, panic |-> c = TrapPtr]
                  ELSE CHOOSE d3 \in
                      {[s |-> [s2 EXCEPT
                                  !.h.count = s2.h.count - 1,
                                  !.mem = IF notLast(m1, c.b, c.i) THEN m1
                                          ELSE emptyRestLoop(m1, s2.h.buckets + bucket,
                                                             c.b, c.i)],
                        panic |-> FALSE] :
                          m1 \in {[s2.mem EXCEPT
                                     ![c.b].keys[c.i] = IF tt.ptrdata THEN 0
                                                        ELSE s2.mem[c.b].keys[c.i],
                                     ![c.b].elems[c.i] = 0,
                                     ![c.b].tophash[c.i] = emptyOne]}} : TRUE :
                     c \in {deleteSearch(s2.mem, s2.h.buckets + bucket, 0, key,
                                         tophash(hash))}} : TRUE :
                s2 \in {IF growing(s.h) THEN growWork(tt, s, bucket) ELSE s}} : TRUE

\* mapdelete: [s, panic]
mapdelete(tt, s, key) ==
    IF s.h.count = 0
    THEN [s |-> s, panic |-> tt.hashMightPanic /\ hasherPanics(key)]
    ELSE LET s1 == writeCheck(s)
         IN  IF s1.fatal # "" THEN [s |-> s1, panic |-> FALSE]
             ELSE IF hasherPanics(key) THEN [s |-> s, panic |-> TRUE]
             ELSE CHOOSE d \in
                      {[s |-> IF r.s.fatal # "" \/ r.panic THEN r.s ELSE writeDone(r.s),
                        panic |-> r.panic] :
                          r \in {deleteBody(tt, writeSet(s1), key)}} : TRUE

----------------------------------------------------------------------------
(* mapclear *)

\* faulty variant of clearBody: a clear that leaves h.count as it was
clearBodyKeepCount(s) ==
    LET h1 == [s.h EXCEPT !.flags = ClearBit(s.h.flags, sameSizeGrow),
                          !.oldbuckets = 0, !.nevacuate = 0, !.noverflow = 0,
                          !.extra = IF s.h.extra.isnil THEN s.h.extra ELSE ZeroExtra]
    IN  CHOOSE c \in
            {St(IF a.nextOverflow # 0
                THEN [h1 EXCEPT !.extra.nextOverflow = a.nextOverflow]
                ELSE h1,
                a.mem, s.fatal) :
                a \in {makeBucketArray(s.mem, s.h.B, s.h.buckets)}} : TRUE

\* faulty variant of clearBody: a clear that leaves h.noverflow as it was
clearBodyKeepNoverflow(s) ==
    LET h1 == [s.h EXCEPT !.flags = ClearBit(s.h.flags, sameSizeGrow),
                          !.oldbuckets = 0, !.nevacuate = 0, !.count = 0,
                          !.extra = IF s.h.extra.isnil THEN s.h.extra ELSE ZeroExtra]
    IN  CHOOSE c \in
            {St(IF a.nextOverflow # 0
                THEN [h1 EXCEPT !.extra.nextOverflow = a.nextOverflow]
                ELSE h1,
                a.mem, s.fatal) :
                a \in {makeBucketArray(s.mem, s.h.B, s.h.buckets)}} : TRUE

\* faulty variant of clearBody: a clear that resets the evacuation cursor
\* but keeps the grow in progress (the old array and the sameSizeGrow flag)
clearBodyKeepOld(s) ==
    LET h1 == [s.h EXCEPT !.nevacuate = 0, !.noverflow = 0, !.count = 0,
                          !.extra = IF s.h.extra.isnil THEN s.h.extra ELSE ZeroExtra]
    IN  CHOOSE c \in
            {St(IF a.nextOverflow # 0
                THEN [h1 EXCEPT !.extra.nextOverflow = a.nextOverflow]
                ELSE h1,
                a.mem, s.fatal) :
                a \in {makeBucketArray(s.mem, s.h.B, s.h.buckets)}} : TRUE

\* lines 1084-1103, after the flag is set: reset the header and regenerate
\* the bucket array
clearBody(s) ==
    LET h1 == [s.h EXCEPT !.flags = ClearBit(s.h.flags, sameSizeGrow),
                          !.oldbuckets = 0, !.nevacuate = 0,
                          !.noverflow = 0, !.count = 0,
                          !.extra = IF s.h.extra.isnil THEN s.h.extra ELSE ZeroExtra]
    IN  CHOOSE c \in
            {St(IF a.nextOverflow # 0
                THEN [h1 EXCEPT !.extra.nextOverflow = a.nextOverflow]
                ELSE h1,
                a.mem, s.fatal) :
                a \in {makeBucketArray(s.mem, s.h.B, s.h.buckets)}} : TRUE

mapclear(s) ==
    IF s.h.count = 0 THEN s
    ELSE LET s1 == writeCheck(s)
         IN  IF s1.fatal # "" THEN s1 ELSE writeDone(clearBody(writeSet(s1)))

----------------------------------------------------------------------------
(* Iteration: hiter, mapiterinit, mapiternext.  The fields overflow and    *)
(* oldoverflow of hiter only keep buckets alive for the collector; the     *)
(* heap of the model frees nothing and they are left out.  hasH is         *)
(* it.h != nil.                                                            *)

ZeroIter ==
    [hasH |-> FALSE, key |-> NilPtr, elem |-> NilPtr, buckets |-> 0, bptr |-> 0,
     startBucket |-> 0, offset |-> 0, wrapped |-> FALSE, B |-> 0, i |-> 0,
     bucket |-> 0, checkBucket |-> 0]

\* faulty variant of skipOther: an iterator that yields every cell of an old
\* bucket, also those that go to the other new bucket
skipOtherNever(tt, m, x, b, offi, checkBucket) == FALSE

\* whether the cell offi of bucket b, met while checkBucket is set during a
\* doubling grow, goes to the other new bucket and is skipped (lines 999-1026)
skipOther(tt, m, x, b, offi, checkBucket) ==
    LET k == m[b].keys[offi]
    IN  IF tt.reflexivekey \/ equal(k, k)
        THEN MaskHash(hasher(k), x.B) # checkBucket
        ELSE (checkBucket \div Pow2(x.B - 1)) # (m[b].tophash[offi] % 2)

\* faulty variant of iterAtEnd: an iterator that takes a return to the start
\* bucket for the end without having wrapped
iterAtEndUnwrapped(x, bucket) == bucket = x.startBucket

\* the end of the iteration (lines 958-963): back at the start bucket after
\* wrapping around
iterAtEnd(x, bucket) == bucket = x.startBucket /\ x.wrapped

\* the label next of mapiternext with its locals bucket, b, i, checkBucket;
\* x is *it.  Returns the hiter left.
RECURSIVE iterLoop(_, _, _, _, _, _, _, _)
iterLoop(tt, hd, m, x, bucket, b, i, checkBucket) ==
    IF b = 0
    THEN IF iterAtEnd(x, bucket)
         THEN [x EXCEPT !.key = NilPtr, !.elem = NilPtr]
         ELSE LET old == growing(hd) /\ x.B = hd.B
                  oldb == hd.oldbuckets + (bucket % (oldbucketmask(hd) + 1))
                  useOld == old /\ ~evacuated(m, oldb)
                  b2 == IF useOld THEN oldb ELSE x.buckets + bucket
                  cb2 == IF useOld THEN bucket ELSE noCheck
                  wrap == bucket + 1 = bucketShift(x.B)
                  bucket2 == IF wrap THEN 0 ELSE bucket + 1
                  x2 == IF wrap THEN [x EXCEPT !.wrapped = TRUE] ELSE x
              IN  iterLoop(tt, hd, m, x2, bucket2, b2, 0, cb2)
    ELSE IF i = bucketCnt
    THEN iterLoop(tt, hd, m, x, bucket, m[b].overflow, 0, checkBucket)
    ELSE LET offi == (i + x.offset) % bucketCnt
             top == m[b].tophash[offi]
             k == m[b].keys[offi]
         IN  IF isEmpty(top) \/ top = evacuatedEmpty
             THEN iterLoop(tt, hd, m, x, bucket, b, i + 1, checkBucket)
             ELSE IF checkBucket # noCheck /\ ~IsSameSizeGrow(hd)
                     /\ skipOther(tt, m, x, b, offi, checkBucket)
             THEN iterLoop(tt, hd, m, x, bucket, b, i + 1, checkBucket)
             ELSE IF (top # evacuatedX /\ top # evacuatedY)
                     \/ ~(tt.reflexivekey \/ equal(k, k))
             THEN [x EXCEPT !.key = [b |-> b, i |-> offi],
                            !.elem = [b |-> b, i |-> offi],
                            !.bucket = bucket, !.bptr = b, !.i = i + 1,
                            !.checkBucket = checkBucket]
             ELSE CHOOSE x2 \in
                      {IF r.kptr = NilPtr
                       THEN iterLoop(tt, hd, m, x, bucket, b, i + 1, checkBucket)
                       ELSE [x EXCEPT !.key = r.kptr, !.elem = r.ptr,
                                      !.bucket = bucket, !.bptr = b, !.i = i + 1,
                                      !.checkBucket = checkBucket] :
                          r \in {mapaccessK(tt, hd, m, k)}} : TRUE

\* mapiternext: [it, fatal]
mapiternext(tt, hd, m, x) ==
    IF HasBit(hd.flags, hashWriting)
    THEN [it |-> x, fatal |-> "concurrent map iteration and map write"]
    ELSE [it |-> iterLoop(tt, hd, m, x, x.bucket, x.bptr, x.i, x.checkBucket),
          fatal |-> ""]

\* mapiterinit with the draw r of fastrand: [h, it, fatal]
mapiterinit(tt, hd, m, r) ==
    IF hd.count = 0 THEN [h |-> hd, it |-> ZeroIter, fatal |-> ""]
    ELSE LET h1 == IF ~tt.ptrdata THEN createOverflow(hd) ELSE hd
             start == r % bucketShift(hd.B)
             x == [ZeroIter EXCEPT !.hasH = TRUE, !.B = hd.B, !.buckets = hd.buckets,
                                   !.startBucket = start,
                                   !.offset = (r \div bucketShift(hd.B)) % bucketCnt,
                                   !.bucket = start]
             h2 == [h1 EXCEPT !.flags = SetBit(SetBit(h1.flags, iterator), oldIterator)]
         IN  CHOOSE a \in
                 {[h |-> h2, it |-> n.it, fatal |-> n.fatal] :
                     n \in {mapiternext(tt, h2, m, x)}} : TRUE

----------------------------------------------------------------------------
(* The workload.  A table is built by makemap or makemap_small and then    *)
(* driven by a scripted run of puts and deletes (which brings it to the    *)
(* size where grows happen) followed by free calls on the active keys.     *)

\* Bound on the heap: a call that would allocate past it is not made
MaxMem == 40

\* Bound on the free calls that follow the script
MaxOps == 4

RECURSIVE PutRun(_, _, _)
\* puts of first, first + step, ... (n keys), each with elem 1
PutRun(first, step, n) ==
    IF n = 0 THEN <<>> ELSE <<<<"put", first, 1>>>> \o PutRun(first + step, step, n - 1)

RECURSIVE DelRun(_, _, _)
DelRun(first, step, n) ==
    IF n = 0 THEN <<>> ELSE <<<<"del", first, 0>>>> \o DelRun(first + step, step, n - 1)

\* 26 puts into a table made without buckets: it doubles at the 9th and the
\* 14th and is left with B = 2 at the load factor
DoublingScript == PutRun(1, 1, 26)

\* on a table made with B = 2: four times, nine keys of one bucket (which
\* allocates an overflow bucket), the first seven of them deleted again but
\* for the last nine; leaves noverflow = 4 below the load factor
SameSizeScript ==
    PutRun(4, 4, 9) \o DelRun(4, 4, 7) \o PutRun(1, 4, 9) \o DelRun(1, 4, 7)
        \o PutRun(2, 4, 9) \o DelRun(2, 4, 7) \o PutRun(3, 4, 9)

Scenarios ==
    {[type |-> ty, table |-> St(makemap_small, <<>>, ""), script |-> sc] :
        ty \in {IntType, IfaceType}, sc \in {<<>>, DoublingScript}}
    \cup {[type |-> ty, table |-> makemap(14), script |-> SameSizeScript] :
        ty \in {IntType, IfaceType}}

\* the keys of the free calls: 1 and 17 share bucket and tophash; 27 is the
\* key the doubling script leaves out
ActiveKeys == {1, 17, 27}

\* the NaN key objects of the free calls; the scripts use the others
FreeNaNs == {NaNBase + MaxNaN - 1, NaNBase + MaxNaN}

\* ok of a delete: whether it removed an entry
NoRet == [op |-> "none", key |-> 0, ptr |-> NilPtr, ok |-> FALSE, panic |-> FALSE]

\* started: mapiterinit has run; removed: the keys deleted or cleared since;
\* written: a put, delete or clear has run since; after: the mapiternext
\* calls made after the one that signalled the end; midgrow: a grow was in
\* progress at mapiterinit
NoLog == [started |-> FALSE, removed |-> {}, written |-> FALSE, after |-> 0,
          midgrow |-> FALSE]

S == St(h, mem, fatal)

\* the next call is op(key, elem): the head of the script, or free
Drives(op, key, elem) ==
    IF script # <<>> THEN Head(script) = <<op, key, elem>>
    ELSE budget > 0 /\ (\/ key \in ActiveKeys
                        \/ t.hashMightPanic /\ key = TrapKey /\ elem <= 1
                        \/ ~t.reflexivekey /\ key \in FreeNaNs /\ elem <= 1)

Commit(s2) ==
    /\ Len(s2.mem) <= MaxMem
    /\ h' = s2.h
    /\ mem' = s2.mem
    /\ fatal' = s2.fatal
    /\ script' = IF script # <<>> THEN Tail(script) ELSE script
    /\ budget' = IF script # <<>> THEN budget ELSE budget - 1

\* calls: the puts and deletes that returned since the put that began the
\* grow in progress; work: those of them that were a put, or a delete on a
\* table that was not empty
NoCalls == [calls |-> 0, work |-> 0]

\* the history after a call that left the table s2: nothing is counted when
\* it left no grow or began the one it left
Grown(s2, returned, worked) ==
    IF ~growing(s2.h) \/ s2.h.oldbuckets # h.oldbuckets THEN NoCalls
    ELSE IF returned
    THEN [calls |-> grown.calls + 1, work |-> grown.work + (IF worked THEN 1 ELSE 0)]
    ELSE grown

InitWith(scenarios, ops, ps) ==
    \E sc \in scenarios :
        /\ t = sc.type
        /\ h = sc.table.h
        /\ mem = sc.table.mem
        /\ fatal = ""
        /\ script = sc.script
        /\ budget = ops
        /\ shadow = [k \in AllKeys |-> 0]
        /\ ret = NoRet
        /\ it = ZeroIter
        /\ seen = <<>>
        /\ snap = [k \in AllKeys |-> 0]
        /\ iterlog = NoLog
        /\ procs = ps
        /\ grown = NoCalls
        /\ mu = ZeroMutex
        /\ lk = <<>>
        /\ ctxs = <<>>
        /\ cgs = <<>>
        /\ now = 0

Init == InitWith(Scenarios, MaxOps, <<>>)

\* the range loop's history after a write that removed the keys rm
Logged(rm) ==
    IF it.hasH
    THEN [iterlog EXCEPT !.removed = iterlog.removed \cup rm, !.written = TRUE]
    ELSE iterlog

\* m[key] = elem
Put(key, elem) ==
    /\ fatal = ""
    /\ Drives("put", key, elem)
    /\ \E r \in {reflect_mapassign(t, S, key, elem)} :
           /\ Commit(r.s)
           /\ ret' = [NoRet EXCEPT !.op = "put", !.key = key, !.ptr = r.elem,
                                   !.panic = r.panic]
           /\ shadow' = IF r.panic \/ r.s.fatal # "" THEN shadow
                        ELSE IF IsNaN(key) THEN [shadow EXCEPT ![key] = shadow[key] + 1]
                        ELSE [shadow EXCEPT ![key] = elem]
           /\ iterlog' = IF r.panic THEN iterlog ELSE Logged({})
           /\ grown' = Grown(r.s, ~r.panic /\ r.s.fatal = "", TRUE)
    /\ UNCHANGED <<t, it, seen, snap, procs, others>>

\* delete(m, key)
Delete(key) ==
    /\ fatal = ""
    /\ Drives("del", key, 0)
    /\ \E r \in {mapdelete(t, S, key)} :
           /\ Commit(r.s)
           /\ ret' = [NoRet EXCEPT !.op = "del", !.key = key, !.panic = r.panic,
                                   !.ok = r.s.h.count < h.count]
           /\ shadow' = IF r.panic \/ r.s.fatal # "" THEN shadow
                        ELSE [shadow EXCEPT ![key] = 0]
           /\ iterlog' = IF r.panic THEN iterlog ELSE Logged({key})
           /\ grown' = Grown(r.s, ~r.panic /\ r.s.fatal = "", h.count # 0)
    /\ UNCHANGED <<t, it, seen, snap, procs, others>>

\* for k := range m { delete(m, k) }, compiled to mapclear
Clear ==
    /\ fatal = ""
    /\ script = <<>>
    /\ budget > 0
    /\ \E s2 \in {mapclear(S)} :
           /\ Commit(s2)
           /\ ret' = [NoRet EXCEPT !.op = "clear"]
           /\ shadow' = IF s2.fatal # "" THEN shadow ELSE [k \in AllKeys |-> 0]
           /\ iterlog' = Logged(AllKeys)
           /\ grown' = Grown(s2, FALSE, FALSE)
    /\ UNCHANGED <<t, it, seen, snap, procs, others>>

\* v, ok := m[key]
Get(key) ==
    /\ fatal = ""
    /\ script = <<>>
    /\ Drives("get", key, 0)
    /\ LET r == mapaccess2(t, h, mem, key)
       IN  /\ ret' = [NoRet EXCEPT !.op = "get", !.key = key, !.ptr = r.ptr,
                                   !.ok = r.ok, !.panic = r.panic]
           /\ fatal' = r.fatal
    /\ budget' = budget - 1
    /\ UNCHANGED <<t, h, mem, script, shadow, it, seen, snap, iterlog, procs, grown, others>>

Next ==
    \/ \E key \in Keys \cup {TrapKey}, elem \in Elems : Put(key, elem)
    \/ \E key \in Keys \cup {TrapKey} : Delete(key)
    \/ Clear
    \/ \E key \in Keys \cup {TrapKey} : Get(key)

Spec == Init /\ [][Next]_vars

----------------------------------------------------------------------------
(* Calls with a key whose comparison panics: the calls of Spec and, after  *)
(* the script, puts and deletes of EqTrapKey on a table of interface keys. *)

\* m[EqTrapKey] = elem
PutHostile(elem) ==
    /\ fatal = ""
    /\ script = <<>>
    /\ budget > 0
    /\ t.hashMightPanic
    /\ \E r \in {reflect_mapassign(t, S, EqTrapKey, elem)} :
           /\ Commit(r.s)
           /\ ret' = [NoRet EXCEPT !.op = "put", !.key = EqTrapKey, !.ptr = r.elem,
                                   !.panic = r.panic]
           /\ iterlog' = IF r.panic THEN iterlog ELSE Logged({})
           /\ grown' = Grown(r.s, ~r.panic /\ r.s.fatal = "", TRUE)
    /\ UNCHANGED <<t, shadow, it, seen, snap, procs, others>>

\* delete(m, EqTrapKey)
DeleteHostile ==
    /\ fatal = ""
    /\ script = <<>>
    /\ budget > 0
    /\ t.hashMightPanic
    /\ \E r \in {mapdelete(t, S, EqTrapKey)} :
           /\ Commit(r.s)
           /\ ret' = [NoRet EXCEPT !.op = "del", !.key = EqTrapKey, !.panic = r.panic,
                                   !.ok = r.s.h.count < h.count]
           /\ iterlog' = IF r.panic THEN iterlog ELSE Logged({})
           /\ grown' = Grown(r.s, ~r.panic /\ r.s.fatal = "", h.count # 0)
    /\ UNCHANGED <<t, shadow, it, seen, snap, procs, others>>

NextTrap ==
    \/ Next
    \/ \E elem \in Elems : PutHostile(elem)
    \/ DeleteHostile

SpecTrap == Init /\ [][NextTrap]_vars

----------------------------------------------------------------------------
(* Puts only: a fresh table, made without buckets or with a size hint,     *)
(* takes a scripted run of puts of new keys and then free puts.            *)

\* the hints of makemap: 9 makes B = 1, 14 makes B = 2
Hints == {9, 14}

\* the lengths of the scripted runs: up to one bucket, past it, past the
\* load factor of B = 1, and up to that of B = 2
RunLengths == {0, 7, 8, 12, 13, 19, 26}

PutScenarios ==
    {[type |-> ty, table |-> tb, script |-> PutRun(1, 1, n)] :
        ty \in {IntType, IfaceType},
        tb \in {St(makemap_small, <<>>, "")} \cup {makemap(hint) : hint \in Hints},
        n \in RunLengths}

InitPuts == InitWith(PutScenarios, MaxOps, <<>>)

NextPuts == \E key \in Keys, elem \in Elems : Put(key, elem)

SpecPuts == InitPuts /\ [][NextPuts]_vars

----------------------------------------------------------------------------
(* Grows of an array of one or two buckets, which the grow work of the put *)
(* that starts them completes.                                             *)

\* eight keys fill the one bucket of a table made without buckets
OneBucketScript == PutRun(2, 2, 8)

\* on a table made with B = 1: nine keys of bucket 0, seven of them deleted
\* again, nine keys of bucket 1; leaves noverflow = 2 and eleven entries
TwoBucketScript == PutRun(2, 2, 9) \o DelRun(2, 2, 7) \o PutRun(3, 2, 9)

\* thirteen keys on a table made with B = 1: the next put passes the load
\* factor
TwoBucketFullScript == PutRun(2, 1, 13)

OnceScenarios ==
    {[type |-> ty, table |-> St(makemap_small, <<>>, ""), script |-> OneBucketScript] :
        ty \in {IntType, IfaceType}}
    \cup {[type |-> ty, table |-> makemap(9), script |-> sc] :
        ty \in {IntType, IfaceType}, sc \in {TwoBucketScript, TwoBucketFullScript}}

InitOnce == InitWith(OnceScenarios, MaxOps, <<>>)

NextOnce ==
    \/ \E key \in Keys, elem \in Elems : Put(key, elem)
    \/ \E key \in Keys : Delete(key)

SpecOnce == InitOnce /\ [][NextOnce]_vars

----------------------------------------------------------------------------
(* Tables emptied while their overflow buckets stay: the calls of Spec on  *)
(* the tables of Spec and on tables whose script deleted every key.        *)

\* deletes of the fifteen keys that SameSizeScript leaves: count = 0 with
\* noverflow = 4
DrainScript ==
    SameSizeScript \o DelRun(32, 4, 2) \o DelRun(29, 4, 2) \o DelRun(30, 4, 2)
        \o DelRun(3, 4, 9)

\* after DrainScript a put, which begins a same-size grow of the four
\* buckets and leaves one entry
DrainGrowScript == DrainScript \o PutRun(1, 1, 1)

DrainScenarios ==
    Scenarios
    \cup {[type |-> ty, table |-> makemap(14), script |-> sc] :
             ty \in {IntType, IfaceType}, sc \in {DrainScript, DrainGrowScript}}

InitDrain == InitWith(DrainScenarios, MaxOps, <<>>)

SpecDrain == InitDrain /\ [][Next]_vars

----------------------------------------------------------------------------
(* The range loop: one mapiterinit, then mapiternext until it signals the  *)
(* end, with writes between the calls.                                     *)

\* Bound on the writes of a run with a range loop
MaxIterOps == 2

\* Bound on the mapiternext calls made after the end was signalled
MaxAfterEnd == 1

\* the draws of fastrand in mapiterinit: for B = 2 they start at buckets 0, 1
\* and 2 with offsets 0, 7 and 6, for B = 3 at buckets 0, 5 and 2
Draws == {0, 29, 58}

InitIter == InitWith(Scenarios, MaxIterOps, <<>>)

\* the key and the elem a pointer pair yielded by the iterator points at
Yielded(m, x) == <<m[x.key.b].keys[x.key.i], m[x.elem.b].elems[x.elem.i]>>

\* it := mapiterinit(t, h) with the draw r of fastrand
IterStart(r) ==
    /\ fatal = ""
    /\ ~iterlog.started
    /\ \E n \in {mapiterinit(t, h, mem, r)} :
           /\ h' = n.h
           /\ it' = n.it
           /\ fatal' = n.fatal
           /\ seen' = IF n.it.key # NilPtr THEN <<Yielded(mem, n.it)>> ELSE <<>>
           /\ ret' = [NoRet EXCEPT !.op = "iterinit", !.ptr = n.it.elem,
                                   !.key = IF n.it.key # NilPtr
                                           THEN Yielded(mem, n.it)[1] ELSE 0]
    /\ snap' = shadow
    /\ iterlog' = [NoLog EXCEPT !.started = TRUE, !.midgrow = growing(h)]
    /\ UNCHANGED <<t, mem, script, budget, shadow, procs, grown, others>>

IterNext ==
    /\ fatal = ""
    /\ it.hasH
    /\ it.key # NilPtr \/ iterlog.after < MaxAfterEnd
    /\ \E n \in {mapiternext(t, h, mem, it)} :
           /\ it' = n.it
           /\ fatal' = n.fatal
           /\ seen' = IF n.it.key # NilPtr THEN Append(seen, Yielded(mem, n.it)) ELSE seen
           /\ ret' = [NoRet EXCEPT !.op = "iternext", !.ptr = n.it.elem,
                                   !.key = IF n.it.key # NilPtr
                                           THEN Yielded(mem, n.it)[1] ELSE 0]
    /\ iterlog' = IF it.key = NilPtr THEN [iterlog EXCEPT !.after = iterlog.after + 1]
                  ELSE iterlog
    /\ UNCHANGED <<t, h, mem, script, budget, shadow, snap, procs, grown, others>>

\* the range loop begins when the script has run
IterInit(r) == script = <<>> /\ IterStart(r)

NextIter ==
    \/ \E key \in Keys, elem \in Elems : Put(key, elem)
    \/ \E key \in Keys : Delete(key)
    \/ Clear
    \/ \E r \in Draws : IterInit(r)
    \/ IterNext

SpecIter == InitIter /\ [][NextIter]_vars

----------------------------------------------------------------------------
(* Keys that are not equal to themselves.  The tables hold NaN keys next   *)
(* to ordinary ones; a range loop runs with writes between its calls.      *)

\* puts of the first n NaN key objects
NaNRun(n) == PutRun(NaNBase + 1, 1, n)

\* eight NaNs, then the ordinary keys that bring the table to B = 2 at the
\* load factor: the NaNs are evacuated twice on the way
NaNDoublingScript == NaNRun(8) \o PutRun(1, 1, 18)

\* four NaNs in the buckets 2, 0, 1 and 2 of a table made with B = 2, then
\* the script that leaves noverflow = 4
NaNSameSizeScript ==
    <<<<"put", NaNBase + 1, 1>>, <<"put", NaNBase + 3, 1>>,
      <<"put", NaNBase + 4, 1>>, <<"put", NaNBase + 5, 1>>>> \o SameSizeScript

NaNScenarios ==
    {[type |-> FloatType, table |-> St(makemap_small, <<>>, ""), script |-> NaNRun(8)],
     [type |-> IfaceType, table |-> St(makemap_small, <<>>, ""),
      script |-> NaNDoublingScript]}
    \cup {[type |-> ty, table |-> makemap(14), script |-> NaNSameSizeScript] :
        ty \in {FloatType, IfaceType}}

InitNaN == InitWith(NaNScenarios, MaxIterOps, <<>>)

\* for k := range m { delete(m, k) } written out: delete called with the key
\* the iterator has just yielded, when that key is a NaN
DeleteYielded ==
    /\ fatal = ""
    /\ script = <<>>
    /\ budget > 0
    /\ it.hasH
    /\ it.key # NilPtr
    /\ \E key \in {Yielded(mem, it)[1]} :
           /\ IsNaN(key)
           /\ \E r \in {mapdelete(t, S, key)} :
                  /\ Commit(r.s)
                  /\ ret' = [NoRet EXCEPT !.op = "delnan", !.key = key, !.panic = r.panic,
                                          !.ok = r.s.h.count < h.count]
                  /\ shadow' = IF r.s.h.count < h.count
                               THEN [shadow EXCEPT ![key] = shadow[key] - 1]
                               ELSE shadow
                  /\ iterlog' = IF r.panic THEN iterlog
                                ELSE Logged(IF r.s.h.count < h.count THEN {key} ELSE {})
                  /\ grown' = Grown(r.s, ~r.panic /\ r.s.fatal = "", h.count # 0)
    /\ UNCHANGED <<t, it, seen, snap, procs, others>>

NextNaN ==
    \/ \E key \in AllKeys, elem \in Elems : Put(key, elem)
    \/ \E key \in Keys : Delete(key)
    \/ \E key \in NaNs : Get(key)
    \/ DeleteYielded
    \/ \E r \in Draws : IterInit(r)
    \/ IterNext

SpecNaN == InitNaN /\ [][NextNaN]_vars

----------------------------------------------------------------------------
(* Tables whose bucket array comes with preallocated overflow buckets      *)
(* (B >= 4): maps of float64 keys on which NaNs are put, each put adding   *)
(* an entry to the bucket that the hash of its key object selects.         *)

\* Bound on the free calls of the pool specification
MaxPoolOps == 20

\* 53 puts of one NaN key object into the table made with B = 3: the 53rd
\* passes the load factor, and the array of B = 4 comes with a pool
PoolGrowScript == PutRun(NaNBase + 1, 0, 53)

\* 18 puts of one NaN key object: its chain takes both buckets of the pool
\* of the table made with B = 5
PoolChainScript == PutRun(NaNBase + 1, 0, 18)

\* tables made with B = 5 (a pool of two buckets), B = 4 (a pool of one)
\* and B = 3 (no pool until the table grows)
PoolScenarios ==
    {[type |-> FloatType, table |-> makemap(105), script |-> <<>>],
     [type |-> FloatType, table |-> makemap(53), script |-> <<>>],
     [type |-> FloatType, table |-> makemap(105), script |-> PoolChainScript],
     [type |-> FloatType, table |-> makemap(27), script |-> PoolGrowScript]}

InitPool == InitWith(PoolScenarios, MaxPoolOps, <<>>)

NextPool ==
    \/ \E key \in NaNs : Put(key, 1)
    \/ Clear

SpecPool == InitPool /\ [][NextPool]_vars

----------------------------------------------------------------------------
(* A range loop that lasts through several grows: the loop begins in the   *)
(* middle of the script, and the calls of the script that follow start and *)
(* complete grows between its mapiternext calls.                           *)

\* after SameSizeScript: put 4 starts a same-size grow, which the next calls
\* complete; per bucket seven puts and seven deletes leave noverflow = 4
\* again, and the last put starts a second same-size grow
RegrowScript ==
    PutRun(4, 4, 7) \o DelRun(4, 4, 7) \o PutRun(1, 4, 7) \o DelRun(1, 4, 7)
        \o PutRun(2, 4, 7) \o DelRun(2, 4, 7) \o PutRun(4, 4, 1)

\* the loop begins with this many calls of the script left: after the
\* eighth put of the doubling script, while the table made without buckets
\* has B = 0, or before the first same-size grow
RangeStart(hd) == IF hd.B = 0 THEN 18 ELSE Len(RegrowScript)

RangeScenarios ==
    {[type |-> ty, table |-> makemap(14), script |-> SameSizeScript \o RegrowScript] :
        ty \in {IntType, IfaceType}}
    \cup {[type |-> ty, table |-> St(makemap_small, <<>>, ""), script |-> DoublingScript] :
        ty \in {IntType, IfaceType}}

\* Bound on the free calls that follow the script of a long range loop
MaxRangeOps == 1

InitRange == InitWith(RangeScenarios, MaxRangeOps, <<>>)

\* the range loop begins in the middle of the script
RangeInit(r) == Len(script) = RangeStart(h) /\ IterStart(r)

NextRange ==
    \/ \E key \in Keys, elem \in Elems : Put(key, elem)
    \/ \E key \in Keys : Delete(key)
    \/ \E r \in Draws : RangeInit(r)
    \/ IterNext

SpecRange == InitRange /\ [][NextRange]_vars

----------------------------------------------------------------------------
(* sync.Mutex.  Lockers lock and unlock one Mutex; a step is one atomic *)
(* access to m.state or m.sema with the local computation around it.       *)

mutexLocked == 1
mutexWoken == 2
mutexStarving == 4
mutexWaiterShift == 3

\* Bound on the goroutines that use the mutex
MutexProcs == 3

\* Bound on the rounds runtime_canSpin lets a goroutine spin in one Lock
MaxSpin == 1

Lockers == 1 .. MutexProcs

\* the variables of the tables, which the mutex leaves alone
mapvars == <<t, h, mem, script, budget, shadow, ret, it, seen, snap, iterlog, procs, grown>>

\* a goroutine outside Lock and Unlock, with the locals of lockSlow
\* (waited: waitStartTime != 0) and of unlockSlow at their initial values
IdleG == [pc |-> "idle", old |-> 0, awoke |-> FALSE, starving |-> FALSE, iter |-> 0,
          waited |-> FALSE]

\* old >> mutexWaiterShift
Waiters(state) == state \div Pow2(mutexWaiterShift)

\* faulty variant of Free: a mutex that is being handed off in starvation
\* mode taken for free
FreeIgnoresStarving(state) == ~HasBit(state, mutexLocked)

\* old & (mutexLocked | mutexStarving) == 0
Free(state) == ~HasBit(state, mutexLocked) /\ ~HasBit(state, mutexStarving)

\* atomic.CompareAndSwapInt32(&m.state, old, new) swaps when m.state is old
CompareAndSwapInt32(cur, old) == cur = old

\* new as lockSlow computes it from old before the awoke check (lines 118-132)
lockNew(old, starving) ==
    LET n1 == IF ~HasBit(old, mutexStarving) THEN SetBit(old, mutexLocked) ELSE old
        n2 == IF ~Free(old) THEN n1 + Pow2(mutexWaiterShift) ELSE n1
    IN  IF starving /\ HasBit(old, mutexLocked) THEN SetBit(n2, mutexStarving) ELSE n2

InitMutex ==
    /\ t = IntType
    /\ h = makemap_small
    /\ mem = <<>>
    /\ fatal = ""
    /\ script = <<>>
    /\ budget = 0
    /\ shadow = [k \in AllKeys |-> 0]
    /\ ret = NoRet
    /\ it = ZeroIter
    /\ seen = <<>>
    /\ snap = [k \in AllKeys |-> 0]
    /\ iterlog = NoLog
    /\ procs = <<>>
    /\ grown = NoCalls
    /\ mu = ZeroMutex
    /\ lk = [g \in Lockers |-> IdleG]
    /\ ctxs = <<>>
    /\ cgs = <<>>
    /\ now = 0

\* Lock: the fast path, or the entry of lockSlow
Lock(g) ==
    /\ fatal = ""
    /\ lk[g].pc = "idle"
    /\ IF CompareAndSwapInt32(mu.state, 0)
       THEN /\ mu' = [mu EXCEPT !.state = mutexLocked]
            /\ lk' = [lk EXCEPT ![g].pc = "held"]
       ELSE /\ mu' = mu
            /\ lk' = [lk EXCEPT ![g].pc = "load"]
    /\ UNCHANGED <<ctxvars, mapvars, fatal>>

\* old := m.state on entry of lockSlow, after a spin and after a failed swap
LoadState(g) ==
    /\ fatal = ""
    /\ lk[g].pc = "load"
    /\ lk' = [lk EXCEPT ![g].pc = "loop", ![g].old = mu.state]
    /\ UNCHANGED <<ctxvars, mapvars, fatal, mu>>

\* one round of active spinning, when runtime_canSpin allows it
Spin(g) ==
    /\ fatal = ""
    /\ lk[g].pc = "loop"
    /\ HasBit(lk[g].old, mutexLocked) /\ ~HasBit(lk[g].old, mutexStarving)
    /\ lk[g].iter < MaxSpin
    /\ IF /\ ~lk[g].awoke /\ ~HasBit(lk[g].old, mutexWoken) /\ Waiters(lk[g].old) # 0
          /\ CompareAndSwapInt32(mu.state, lk[g].old)
       THEN /\ mu' = [mu EXCEPT !.state = SetBit(lk[g].old, mutexWoken)]
            /\ lk' = [lk EXCEPT ![g].awoke = TRUE, ![g].iter = lk[g].iter + 1,
                                ![g].pc = "load"]
       ELSE /\ mu' = mu
            /\ lk' = [lk EXCEPT ![g].iter = lk[g].iter + 1, ![g].pc = "load"]
    /\ UNCHANGED <<ctxvars, mapvars, fatal>>

\* the swap of lockSlow: takes the mutex, or queues the goroutine
TryLock(g) ==
    /\ fatal = ""
    /\ lk[g].pc = "loop"
    /\ LET old == lk[g].old
           n == lockNew(old, lk[g].starving)
           new == IF lk[g].awoke THEN ClearBit(n, mutexWoken) ELSE n
       IN  IF lk[g].awoke /\ ~HasBit(n, mutexWoken)
           THEN /\ fatal' = "sync: inconsistent mutex state"
                /\ UNCHANGED <<mu, lk>>
           ELSE /\ fatal' = fatal
                /\ IF CompareAndSwapInt32(mu.state, old)
                   THEN /\ mu' = [mu EXCEPT !.state = new]
                        /\ lk' = IF Free(old)
                                 THEN [lk EXCEPT ![g].pc = "held"]
                                 ELSE [lk EXCEPT ![g].pc = "sleep", ![g].waited = TRUE]
                   ELSE /\ mu' = mu
                        /\ lk' = [lk EXCEPT ![g].pc = "load"]
    /\ UNCHANGED <<ctxvars, mapvars>>

\* runtime_SemacquireMutex returns: the semaphore was positive and is taken;
\* late: the wait took more than starvationThresholdNs
Semacquire(g, late) ==
    /\ fatal = ""
    /\ lk[g].pc = "sleep"
    /\ mu.sema > 0
    /\ mu' = [mu EXCEPT !.sema = mu.sema - 1]
    /\ lk' = [lk EXCEPT ![g].pc = "woken", ![g].starving = lk[g].starving \/ late]
    /\ UNCHANGED <<ctxvars, mapvars, fatal>>

\* old = m.state after the wake-up, and the branch on mutexStarving
Awake(g) ==
    /\ fatal = ""
    /\ lk[g].pc = "woken"
    /\ LET old == mu.state
       IN  IF ~HasBit(old, mutexStarving)
           THEN /\ lk' = [lk EXCEPT ![g].pc = "loop", ![g].old = old,
                                    ![g].awoke = TRUE, ![g].iter = 0]
                /\ fatal' = fatal
           ELSE IF HasBit(old, mutexLocked) \/ HasBit(old, mutexWoken) \/ Waiters(old) = 0
           THEN /\ fatal' = "sync: inconsistent mutex state"
                /\ lk' = lk
           ELSE /\ lk' = [lk EXCEPT ![g].pc = "handoff", ![g].old = old]
                /\ fatal' = fatal
    /\ UNCHANGED <<ctxvars, mapvars, mu>>

\* atomic.AddInt32(&m.state, delta) of the goroutine the mutex was handed to
Handoff(g) ==
    /\ fatal = ""
    /\ lk[g].pc = "handoff"
    /\ LET delta == mutexLocked - Pow2(mutexWaiterShift)
                    - (IF ~lk[g].starving \/ Waiters(lk[g].old) = 1
                       THEN mutexStarving ELSE 0)
       IN  mu' = [mu EXCEPT !.state = mu.state + delta]
    /\ lk' = [lk EXCEPT ![g].pc = "held"]
    /\ UNCHANGED <<ctxvars, mapvars, fatal>>

\* Unlock: the fast path and the entry of unlockSlow
Unlock(g) ==
    /\ fatal = ""
    /\ lk[g].pc = "held"
    /\ LET new == mu.state - mutexLocked
       IN  /\ mu' = [mu EXCEPT !.state = new]
           /\ IF new = 0
              THEN lk' = [lk EXCEPT ![g] = IdleG] /\ fatal' = fatal
              ELSE IF ~HasBit(new + mutexLocked, mutexLocked)
              THEN lk' = lk /\ fatal' = "sync: unlock of unlocked mutex"
              ELSE /\ fatal' = fatal
                   /\ lk' = IF ~HasBit(new, mutexStarving)
                            THEN [lk EXCEPT ![g] = [IdleG EXCEPT !.pc = "wake", !.old = new]]
                            ELSE [lk EXCEPT ![g] = [IdleG EXCEPT !.pc = "release"]]
    /\ UNCHANGED <<ctxvars, mapvars>>

\* unlockSlow that takes the right to wake and returns without the release
WakeWithoutRelease(g) ==
    /\ fatal = ""
    /\ lk[g].pc = "wake"
    /\ LET old == lk[g].old
       IN  IF Waiters(old) = 0 \/ HasBit(old, mutexLocked) \/ HasBit(old, mutexWoken)
              \/ HasBit(old, mutexStarving)
           THEN mu' = mu /\ lk' = [lk EXCEPT ![g] = IdleG]
           ELSE IF CompareAndSwapInt32(mu.state, old)
           THEN /\ mu' = [mu EXCEPT !.state = SetBit(old - Pow2(mutexWaiterShift), mutexWoken)]
                /\ lk' = [lk EXCEPT ![g] = IdleG]
           ELSE /\ mu' = mu
                /\ lk' = [lk EXCEPT ![g].pc = "reload"]
    /\ UNCHANGED <<ctxvars, mapvars, fatal>>

\* the loop of unlockSlow in normal mode: return, or take the right to wake
Wake(g) ==
    /\ fatal = ""
    /\ lk[g].pc = "wake"
    /\ LET old == lk[g].old
       IN  IF Waiters(old) = 0 \/ HasBit(old, mutexLocked) \/ HasBit(old, mutexWoken)
              \/ HasBit(old, mutexStarving)
           THEN mu' = mu /\ lk' = [lk EXCEPT ![g] = IdleG]
           ELSE IF CompareAndSwapInt32(mu.state, old)
           THEN /\ mu' = [mu EXCEPT !.state = SetBit(old - Pow2(mutexWaiterShift), mutexWoken)]
                /\ lk' = [lk EXCEPT ![g].pc = "release"]
           ELSE /\ mu' = mu
                /\ lk' = [lk EXCEPT ![g].pc = "reload"]
    /\ UNCHANGED <<ctxvars, mapvars, fatal>>

\* old = m.state after the failed swap of unlockSlow
ReloadWake(g) ==
    /\ fatal = ""
    /\ lk[g].pc = "reload"
    /\ lk' = [lk EXCEPT ![g].pc = "wake", ![g].old = mu.state]
    /\ UNCHANGED <<ctxvars, mapvars, fatal, mu>>

\* runtime_Semrelease(&m.sema, handoff, 1)
Semrelease(g) ==
    /\ fatal = ""
    /\ lk[g].pc = "release"
    /\ mu' = [mu EXCEPT !.sema = mu.sema + 1]
    /\ lk' = [lk EXCEPT ![g] = IdleG]
    /\ UNCHANGED <<ctxvars, mapvars, fatal>>

NextMutex ==
    \E g \in Lockers :
        \/ Lock(g)
        \/ LoadState(g)
        \/ Spin(g)
        \/ TryLock(g)
        \/ \E late \in BOOLEAN : Semacquire(g, late)
        \/ Awake(g)
        \/ Handoff(g)
        \/ Unlock(g)
        \/ Wake(g)
        \/ ReloadWake(g)
        \/ Semrelease(g)

SpecMutex == InitMutex /\ [][NextMutex]_vars

\* the steps of goroutine g inside Lock and Unlock, and its call of Unlock:
\* a goroutine that holds the mutex unlocks it, one outside need not lock
Proceed(g) ==
    \/ LoadState(g)
    \/ Spin(g)
    \/ TryLock(g)
    \/ \E late \in BOOLEAN : Semacquire(g, late)
    \/ Awake(g)
    \/ Handoff(g)
    \/ Unlock(g)
    \/ Wake(g)
    \/ ReloadWake(g)
    \/ Semrelease(g)

\* the scheduler runs every goroutine that can take a step
SpecMutexFair == SpecMutex /\ \A g \in Lockers : WF_vars(Proceed(g))

----------------------------------------------------------------------------
(* Package context.  The contexts are the cells of ctxs; background, the    *)
(* emptyCtx, is 0.  A goroutine's call is a stack of frames, one for each   *)
(* cancel call and one for the WithCancel or WithDeadline that is running;  *)
(* it is cut where it takes a mutex, so that calls interleave as the locks  *)
(* allow.  c.mu is held from the check of c.err to the end of the loop over *)
(* c.children, and each child's cancel runs inside it.                      *)

\* Bounds: the contexts made, those of them with a timer, the goroutines,
\* and the clock
MaxCtx == 3
MaxTimers == 1
CtxProcs == 2
MaxTime == 1

Ctxs == 1 .. MaxCtx
Callers == 1 .. CtxProcs
Deadlines == 1 .. (MaxTime + 1)

background == 0

Canceled == "context canceled"
DeadlineExceeded == "context deadline exceeded"

\* a cell that no call has taken.  mu: the goroutine that holds c.mu, 0 when
\* free; done: "nil", "open", "closed", or "closedchan" for the shared closed
\* channel; timer: "nil", "armed", or "fired" once the function has been
\* started; made: the call that made the context has returned it; cf: the
\* removeFromParent argument in the CancelFunc returned with it.  History:
\* cause tells whether the cancel that set err came from the parent
NoCtx ==
    [kind |-> "none", Context |-> 0, mu |-> 0, done |-> "nil", children |-> {},
     err |-> "nil", timer |-> "nil", deadline |-> 0, made |-> FALSE, cf |-> FALSE,
     cause |-> "none"]

newCancelCtx(parent) == [NoCtx EXCEPT !.kind = "cancelCtx", !.Context = parent]

\* c.Deadline(): the deadline of the nearest timerCtx, 0 when there is none
RECURSIVE Deadline(_, _)
Deadline(cs, c) ==
    IF c = background THEN 0
    ELSE IF cs[c].kind = "timerCtx" THEN cs[c].deadline
    ELSE Deadline(cs, cs[c].Context)

\* a receive from c.Done() would not block
Closed(cs, c) == c # background /\ cs[c].done \in {"closed", "closedchan"}

\* c.Done() makes the channel when there is none
cancelCtxDone(cs, c) ==
    IF c = background \/ cs[c].done # "nil" THEN cs ELSE [cs EXCEPT ![c].done = "open"]

\* faulty variant of removeChild: a cancel that leaves the child in the
\* children of its parent
removeChildSkipped(cs, parent, child) == cs

\* removeChild(parent, child); parentCancelCtx finds no cancelCtx when
\* parent.Done() is nil or closedchan
removeChild(cs, parent, child) ==
    IF parent = background \/ cs[parent].done = "closedchan" THEN cs
    ELSE [cancelCtxDone(cs, parent) EXCEPT ![parent].children = @ \ {child}]

IdleCaller == [op |-> "idle", c |-> 0, st |-> <<>>, won |-> FALSE]

\* the frame of a call on context c at pc; rm and err are the arguments of
\* cancel, todo the children the range loop has still to visit
Frame(pc, c, rm, err) == [pc |-> pc, c |-> c, rm |-> rm, err |-> err, todo |-> {}]

Top(g) == cgs[g].st[Len(cgs[g].st)]

AtPc(g, pc) == cgs[g].st # <<>> /\ Top(g).pc = pc

\* goroutine g goes on at pc in its top frame, or returns to the caller
Goto(g, pc) ==
    LET st == cgs[g].st
    IN  IF pc # "return"
        THEN [cgs EXCEPT ![g].st[Len(st)].pc = pc]
        ELSE IF Len(st) = 1 THEN [cgs EXCEPT ![g] = IdleCaller]
        ELSE [cgs EXCEPT ![g].st = SubSeq(st, 1, Len(st) - 1)]

\* goroutine g calls cancel(rm, err) on context c and will go on at pc after
\* the call
CallCancel(g, pc, c, rm, err) ==
    LET st == cgs[g].st
    IN  [cgs EXCEPT ![g].st = Append([st EXCEPT ![Len(st)].pc = pc],
                                     Frame("lock", c, rm, err))]

\* where cancel goes on after the locked part of cancelCtx.cancel; early: it
\* found the context cancelled.  timerCtx.cancel calls cancelCtx.cancel with
\* removeFromParent = false and goes on to removeChild and the timer
afterCancel(cs, f, early) ==
    IF cs[f.c].kind = "timerCtx" THEN (IF f.rm THEN "remove" ELSE "stop")
    ELSE IF f.rm /\ ~early THEN "remove" ELSE "return"

\* the variables package context leaves alone
nonctx == <<mapvars, fatal, mu, lk>>

InitCtx ==
    /\ t = IntType
    /\ h = makemap_small
    /\ mem = <<>>
    /\ fatal = ""
    /\ script = <<>>
    /\ budget = 0
    /\ shadow = [k \in AllKeys |-> 0]
    /\ ret = NoRet
    /\ it = ZeroIter
    /\ seen = <<>>
    /\ snap = [k \in AllKeys |-> 0]
    /\ iterlog = NoLog
    /\ procs = <<>>
    /\ grown = NoCalls
    /\ mu = ZeroMutex
    /\ lk = <<>>
    /\ ctxs = [c \in Ctxs |-> NoCtx]
    /\ cgs = [g \in Callers |-> IdleCaller]
    /\ now = 0

\* newCancelCtx or &timerCtx{...}, and propagateCancel down to its select:
\* done := parent.Done() makes the channel of the parent
Derive(g, parent, kind, d) ==
    /\ cgs[g].op = "idle"
    /\ parent # background => ctxs[parent].made /\ ctxs[parent].mu = 0
    /\ \E c \in Ctxs :
        /\ ctxs[c].kind = "none"
        /\ \A b \in 1 .. (c - 1) : ctxs[b].kind # "none"
        /\ ctxs' = [cancelCtxDone(ctxs, parent) EXCEPT
                        ![c] = [newCancelCtx(parent) EXCEPT !.kind = kind,
                                                            !.deadline = d]]
        /\ cgs' = [cgs EXCEPT ![g] =
                      [op |-> IF kind = "timerCtx" THEN "WithDeadline" ELSE "WithCancel",
                       c |-> c, won |-> FALSE,
                       st |-> IF parent = background
                              THEN <<Frame("after", c, FALSE, "nil")>>
                              ELSE IF Closed(ctxs, parent)
                              THEN <<Frame("after", c, FALSE, "nil"),
                                     Frame("lock", c, FALSE, ctxs[parent].err)>>
                              ELSE <<Frame("link", c, FALSE, "nil")>>]]
    /\ UNCHANGED <<now, nonctx>>

WithCancel(g, parent) == Derive(g, parent, "cancelCtx", 0)

\* a parent with an earlier deadline makes it WithCancel(parent)
WithDeadline(g, parent, d) ==
    IF Deadline(ctxs, parent) # 0 /\ Deadline(ctxs, parent) < d
    THEN WithCancel(g, parent)
    ELSE /\ Cardinality({c \in Ctxs : ctxs[c].kind = "timerCtx"}) < MaxTimers
         /\ Derive(g, parent, "timerCtx", d)

\* faulty variant of Link: propagateCancel that puts the child in p.children
\* without the check of p.err
LinkUnchecked(g) ==
    /\ AtPc(g, "link")
    /\ LET c == Top(g).c
           p == ctxs[c].Context
       IN  /\ ctxs[p].mu = 0
           /\ ctxs' = [ctxs EXCEPT ![p].children = @ \cup {c}]
           /\ cgs' = Goto(g, "after")
    /\ UNCHANGED <<now, nonctx>>

\* propagateCancel from parentCancelCtx on: under p.mu the child is
\* cancelled when p.err is set, and else put in p.children
Link(g) ==
    /\ AtPc(g, "link")
    /\ LET c == Top(g).c
           p == ctxs[c].Context
       IN  /\ ctxs[p].mu = 0
           /\ IF ctxs[p].err # "nil"
              THEN /\ ctxs' = [ctxs EXCEPT ![p].mu = g]
                   /\ cgs' = CallCancel(g, "unlock", c, FALSE, ctxs[p].err)
              ELSE /\ ctxs' = [ctxs EXCEPT ![p].children = @ \cup {c}]
                   /\ cgs' = Goto(g, "after")
    /\ UNCHANGED <<now, nonctx>>

\* p.mu.Unlock() of propagateCancel after child.cancel(false, p.err)
Unlock_p(g) ==
    /\ AtPc(g, "unlock")
    /\ ctxs' = [ctxs EXCEPT ![ctxs[Top(g).c].Context].mu = 0]
    /\ cgs' = Goto(g, "after")
    /\ UNCHANGED <<now, nonctx>>

\* after propagateCancel: WithCancel returns; WithDeadline cancels the
\* context when the deadline has passed, and else starts the timer, under
\* c.mu and only when c.err is nil, and returns
Until(g) ==
    /\ AtPc(g, "after")
    /\ LET c == Top(g).c
       IN  IF ctxs[c].kind = "cancelCtx"
           THEN /\ ctxs' = [ctxs EXCEPT ![c].made = TRUE, ![c].cf = TRUE]
                /\ cgs' = Goto(g, "return")
           ELSE IF ctxs[c].deadline <= now
           THEN /\ ctxs' = ctxs
                /\ cgs' = CallCancel(g, "expired", c, TRUE, DeadlineExceeded)
           ELSE /\ ctxs[c].mu = 0
                /\ ctxs' = [ctxs EXCEPT ![c].made = TRUE, ![c].cf = TRUE,
                                        ![c].timer = IF ctxs[c].err = "nil"
                                                     THEN "armed" ELSE "nil"]
                /\ cgs' = Goto(g, "return")
    /\ UNCHANGED <<now, nonctx>>

\* return c, func() { c.cancel(false, Canceled) }
Expired(g) ==
    /\ AtPc(g, "expired")
    /\ ctxs' = [ctxs EXCEPT ![Top(g).c].made = TRUE, ![Top(g).c].cf = FALSE]
    /\ cgs' = Goto(g, "return")
    /\ UNCHANGED <<now, nonctx>>

\* a goroutine calls the CancelFunc returned with context c
CancelFunc(g, c) ==
    /\ cgs[g].op = "idle"
    /\ ctxs[c].made
    /\ cgs' = [cgs EXCEPT ![g] = [op |-> "cancel", c |-> c, won |-> FALSE,
                                  st |-> <<Frame("lock", c, ctxs[c].cf, Canceled)>>]]
    /\ UNCHANGED <<ctxs, now, nonctx>>

\* the timer of context c starts its function: c.cancel(true, DeadlineExceeded)
TimerFire(g, c) ==
    /\ cgs[g].op = "idle"
    /\ ctxs[c].timer = "armed"
    /\ ctxs[c].deadline <= now
    /\ ctxs' = [ctxs EXCEPT ![c].timer = "fired"]
    /\ cgs' = [cgs EXCEPT ![g] = [op |-> "cancel", c |-> c, won |-> FALSE,
                                  st |-> <<Frame("lock", c, TRUE, DeadlineExceeded)>>]]
    /\ UNCHANGED <<now, nonctx>>

\* faulty variant of CancelLock: a cancel that sets c.err and goes through
\* the children again when the context was cancelled before
CancelLockAgain(g) ==
    /\ AtPc(g, "lock")
    /\ LET f == Top(g)
       IN  /\ ctxs[f.c].mu = 0
           /\ ctxs' = [ctxs EXCEPT ![f.c].mu = g, ![f.c].err = f.err,
                                   ![f.c].done = IF @ = "nil" THEN "closedchan"
                                                 ELSE "closed",
                                   ![f.c].cause = IF f.rm THEN "own" ELSE "parent"]
           /\ cgs' = [Goto(g, "range") EXCEPT
                         ![g].won = @ \/ (cgs[g].op = "cancel" /\ Len(cgs[g].st) = 1),
                         ![g].st[Len(cgs[g].st)].todo = ctxs[f.c].children]
    /\ UNCHANGED <<now, nonctx>>

\* cancelCtx.cancel under c.mu: a context cancelled before is left as it is;
\* else c.err = err, and c.done = closedchan when no channel was made, else
\* close(c.done)
CancelLock(g) ==
    /\ AtPc(g, "lock")
    /\ LET f == Top(g)
       IN  /\ ctxs[f.c].mu = 0
           /\ IF ctxs[f.c].err # "nil"
              THEN /\ ctxs' = ctxs
                   /\ cgs' = Goto(g, afterCancel(ctxs, f, TRUE))
              ELSE /\ ctxs' = [ctxs EXCEPT ![f.c].mu = g, ![f.c].err = f.err,
                                           ![f.c].done = IF @ = "nil" THEN "closedchan"
                                                         ELSE "closed",
                                           ![f.c].cause = IF f.rm THEN "own"
                                                          ELSE "parent"]
                   /\ cgs' = [Goto(g, "range") EXCEPT
                                 ![g].won = @ \/ (cgs[g].op = "cancel"
                                                     /\ Len(cgs[g].st) = 1),
                                 ![g].st[Len(cgs[g].st)].todo = ctxs[f.c].children]
    /\ UNCHANGED <<now, nonctx>>

\* for child := range c.children { child.cancel(false, err) }
RangeChild(g, child) ==
    /\ AtPc(g, "range")
    /\ child \in Top(g).todo
    /\ cgs' = [CallCancel(g, "range", child, FALSE, Top(g).err) EXCEPT
                  ![g].st[Len(cgs[g].st)].todo = @ \ {child}]
    /\ UNCHANGED <<ctxs, now, nonctx>>

\* c.children = nil; c.mu.Unlock()
RangeEnd(g) ==
    /\ AtPc(g, "range")
    /\ Top(g).todo = {}
    /\ ctxs' = [ctxs EXCEPT ![Top(g).c].children = {}, ![Top(g).c].mu = 0]
    /\ cgs' = Goto(g, afterCancel(ctxs, Top(g), FALSE))
    /\ UNCHANGED <<now, nonctx>>

\* removeChild(c.Context, c), which takes the mutex of the parent
RemoveChild(g) ==
    /\ AtPc(g, "remove")
    /\ LET c == Top(g).c
           p == ctxs[c].Context
       IN  /\ p # background => ctxs[p].mu = 0
           /\ ctxs' = removeChild(ctxs, p, c)
           /\ cgs' = Goto(g, IF ctxs[c].kind = "timerCtx" THEN "stop" ELSE "return")
    /\ UNCHANGED <<now, nonctx>>

\* timerCtx.cancel under c.mu: c.timer.Stop(); c.timer = nil
StopTimer(g) ==
    /\ AtPc(g, "stop")
    /\ ctxs[Top(g).c].mu = 0
    /\ ctxs' = [ctxs EXCEPT ![Top(g).c].timer = "nil"]
    /\ cgs' = Goto(g, "return")
    /\ UNCHANGED <<now, nonctx>>

\* c.Err() returns c.err under c.mu
Err(c) ==
    /\ ctxs[c].made
    /\ ctxs[c].mu = 0
    /\ UNCHANGED <<ctxs, cgs, now, nonctx>>

\* c.Done() makes the channel when there is none
Done(c) ==
    /\ ctxs[c].made
    /\ ctxs[c].mu = 0
    /\ ctxs' = cancelCtxDone(ctxs, c)
    /\ UNCHANGED <<cgs, now, nonctx>>

\* time passes
Tick ==
    /\ now < MaxTime
    /\ now' = now + 1
    /\ UNCHANGED <<ctxs, cgs, nonctx>>

\* the workload: goroutine 1 makes the contexts, the timers start their
\* functions on goroutine CtxProcs, and every goroutine cancels
NextCtx ==
    \/ \E parent \in {background} \cup Ctxs : WithCancel(1, parent)
    \/ \E parent \in {background} \cup Ctxs, d \in Deadlines : WithDeadline(1, parent, d)
    \/ \E g \in Callers :
        \/ Link(g)
        \/ Unlock_p(g)
        \/ Until(g)
        \/ Expired(g)
        \/ CancelLock(g)
        \/ RangeEnd(g)
        \/ RemoveChild(g)
        \/ StopTimer(g)
    \/ \E g \in Callers, c \in Ctxs :
        \/ CancelFunc(g, c)
        \/ RangeChild(g, c)
    \/ \E c \in Ctxs : TimerFire(CtxProcs, c)
    \/ \E c \in Ctxs : Err(c) \/ Done(c)
    \/ Tick

SpecCtx == InitCtx /\ [][NextCtx]_vars

----------------------------------------------------------------------------
(* Concurrent callers.  Two goroutines call into one table without a lock. *)
(* A call is cut where another goroutine can run between its accesses to   *)
(* h.flags: the entry (the count and flag checks and the hash), the load   *)
(* and the store of h.flags ^= hashWriting, the body, the exit check, the  *)
(* load and the store of h.flags &^= hashWriting, and for a put the store  *)
(* of the elem through the pointer mapassign returned.  The two updates of *)
(* h.flags are plain read-modify-writes, so a store may overwrite what     *)
(* another goroutine stored since the load.                                *)

Goroutines == {1, 2}

\* Bound on the calls a goroutine makes
MaxCalls == 1

Mutating == {"put", "del", "clear"}

\* 1 is in the table after every script but the empty one, 27 after none
ConcKeys == {1, 27}

ConcScenarios ==
    {[type |-> IfaceType, table |-> St(makemap_small, <<>>, ""), script |-> sc] :
        sc \in {<<>>, PutRun(1, 16, 2), DoublingScript}}

\* pc: where the goroutine is in its call; tmp: the h.flags it loaded;
\* ptr: the elem pointer its mapassign returned; n: the calls it has made;
\* out: how its last call ended.  History of the last call: inset and
\* incount are h.flags & hashWriting != 0 and h.count at its entry, exitset
\* is the flag its exit check read, wrote whether it stored to h.flags, ov
\* the goroutines that had a call in progress during it, rt those of them
\* that were inside the map function (not idle and not at the store of the
\* elem that follows mapassign) while it was.
IdleProc ==
    [pc |-> "idle", op |-> "none", key |-> 0, tmp |-> 0, ptr |-> NilPtr, n |-> 0,
     out |-> "none", inset |-> FALSE, incount |-> 0, exitset |-> FALSE,
     wrote |-> FALSE, ov |-> {}, rt |-> {}]

InitConc == InitWith(ConcScenarios, 0, [p \in Goroutines |-> IdleProc])

\* The entries: go is "fatal" (throw), "panic" (the hasher trapped), "ret"
\* (early return), or the pc the call goes on from; flags is h.flags after.
Entry(go, msg, flags) == [go |-> go, fatal |-> msg, flags |-> flags]

\* faulty variant of assignEntry: a put that sets the flag before it hashes
\* the key
assignEntrySetFirst(tt, hd, key) ==
    IF HasBit(hd.flags, hashWriting) THEN Entry("fatal", "concurrent map writes", hd.flags)
    ELSE IF hasherPanics(key) THEN Entry("panic", "", XorBit(hd.flags, hashWriting))
    ELSE Entry("load", "", hd.flags)

\* mapassign, lines 647-655: the check, then the hash, then the flag
assignEntry(tt, hd, key) ==
    IF HasBit(hd.flags, hashWriting) THEN Entry("fatal", "concurrent map writes", hd.flags)
    ELSE IF hasherPanics(key) THEN Entry("panic", "", hd.flags)
    ELSE Entry("load", "", hd.flags)

\* mapdelete, lines 784-798
deleteEntry(tt, hd, key) ==
    IF hd.count = 0
    THEN Entry(IF tt.hashMightPanic /\ hasherPanics(key) THEN "panic" ELSE "ret",
               "", hd.flags)
    ELSE IF HasBit(hd.flags, hashWriting) THEN Entry("fatal", "concurrent map writes", hd.flags)
    ELSE IF hasherPanics(key) THEN Entry("panic", "", hd.flags)
    ELSE Entry("load", "", hd.flags)

\* mapclear, lines 1074-1082
clearEntry(hd) ==
    IF hd.count = 0 THEN Entry("ret", "", hd.flags)
    ELSE IF HasBit(hd.flags, hashWriting) THEN Entry("fatal", "concurrent map writes", hd.flags)
    ELSE Entry("load", "", hd.flags)

\* faulty variant of accessEntry: a lookup without the check of the flag
accessEntryNoCheck(tt, hd, key) ==
    IF hd.count = 0
    THEN Entry(IF tt.hashMightPanic /\ hasherPanics(key) THEN "panic" ELSE "ret",
               "", hd.flags)
    ELSE IF hasherPanics(key) THEN Entry("panic", "", hd.flags)
    ELSE Entry("read", "", hd.flags)

\* mapaccess1 and mapaccess2, lines 456-467 and 523-534
accessEntry(tt, hd, key) ==
    IF hd.count = 0
    THEN Entry(IF tt.hashMightPanic /\ hasherPanics(key) THEN "panic" ELSE "ret",
               "", hd.flags)
    ELSE IF HasBit(hd.flags, hashWriting)
    THEN Entry("fatal", "concurrent map read and map write", hd.flags)
    ELSE IF hasherPanics(key) THEN Entry("panic", "", hd.flags)
    ELSE Entry("read", "", hd.flags)

\* mapaccessK, lines 575-578: no check of the flag
accessKEntry(tt, hd, key) ==
    IF hd.count = 0 THEN Entry("ret", "", hd.flags)
    ELSE IF hasherPanics(key) THEN Entry("panic", "", hd.flags)
    ELSE Entry("read", "", hd.flags)

\* mapiternext, lines 946-948
iternextEntry(hd) ==
    IF HasBit(hd.flags, hashWriting)
    THEN Entry("fatal", "concurrent map iteration and map write", hd.flags)
    ELSE Entry("read", "", hd.flags)

EntryOf(op, key) ==
    CASE op = "put" -> assignEntry(t, h, key)
      [] op = "del" -> deleteEntry(t, h, key)
      [] op = "clear" -> clearEntry(h)
      [] op \in {"get1", "get2"} -> accessEntry(t, h, key)
      [] op = "getK" -> accessKEntry(t, h, key)
      [] op = "iternext" -> iternextEntry(h)

\* faulty variant of exitCheck: an exit that does not check the flag
exitCheckNever(hd) == ""

\* the exit check of mapassign (762), mapdelete (881) and mapclear (1105):
\* the message thrown, "" when it passes
exitCheck(hd) ==
    IF ~HasBit(hd.flags, hashWriting) THEN "concurrent map writes" ELSE ""

\* goroutine p calls op(key) and runs its entry
Call(p, op, key) ==
    /\ fatal = ""
    /\ script = <<>>
    /\ procs[p].pc = "idle"
    /\ procs[p].n < MaxCalls
    /\ op \in {"clear", "iternext"} \/ key \in ConcKeys \/ key = TrapKey
    /\ op = "iternext" => (p = 1 /\ it.hasH /\ it.key # NilPtr)
    /\ \E e \in {EntryOf(op, key)} :
           /\ fatal' = e.fatal
           /\ h' = [h EXCEPT !.flags = e.flags]
           /\ procs' = [q \in Goroutines |->
                  IF q = p
                  THEN [IdleProc EXCEPT
                           !.pc = CASE e.go = "fatal" -> "dead"
                                    [] e.go \in {"panic", "ret"} -> "idle"
                                    [] OTHER -> e.go,
                           !.out = CASE e.go = "fatal" -> "fatal"
                                     [] e.go = "panic" -> "panic"
                                     [] e.go = "ret" -> "ok"
                                     [] OTHER -> "run",
                           !.op = op, !.key = key, !.n = procs[p].n + 1,
                           !.inset = HasBit(h.flags, hashWriting),
                           !.incount = h.count,
                           !.wrote = e.flags # h.flags,
                           !.ov = {r \in Goroutines \ {p} : procs[r].pc # "idle"},
                           !.rt = {r \in Goroutines \ {p} :
                                      procs[r].pc \notin {"idle", "assign"}}]
                  ELSE IF procs[q].pc \notin {"idle", "assign"}
                  THEN [procs[q] EXCEPT !.ov = @ \cup {p}, !.rt = @ \cup {p}]
                  ELSE IF procs[q].pc # "idle"
                  THEN [procs[q] EXCEPT !.ov = @ \cup {p}]
                  ELSE procs[q]]
    /\ UNCHANGED <<t, mem, script, budget, shadow, ret, it, seen, snap, iterlog, grown, others>>

\* the load of h.flags ^= hashWriting
FlagLoad(p) ==
    /\ fatal = ""
    /\ procs[p].pc = "load"
    /\ procs' = [procs EXCEPT ![p].tmp = h.flags, ![p].pc = "store"]
    /\ UNCHANGED <<t, h, mem, fatal, script, budget, shadow, ret, it, seen, snap, iterlog, grown, others>>

\* the store of h.flags ^= hashWriting
FlagStore(p) ==
    /\ fatal = ""
    /\ procs[p].pc = "store"
    /\ h' = [h EXCEPT !.flags = XorBit(procs[p].tmp, hashWriting)]
    /\ procs' = [procs EXCEPT ![p].pc = "body", ![p].wrote = TRUE]
    /\ UNCHANGED <<t, mem, fatal, script, budget, shadow, ret, it, seen, snap, iterlog, grown, others>>

\* what the call does between its two updates of the flag: [s, elem]
BodyOf(op, key) ==
    CASE op = "put" -> assignBody(t, S, key)
      [] op = "del" -> [s |-> deleteBody(t, S, key).s, elem |-> NilPtr]
      [] op = "clear" -> [s |-> clearBody(S), elem |-> NilPtr]

Body(p) ==
    /\ fatal = ""
    /\ procs[p].pc = "body"
    /\ \E r \in {BodyOf(procs[p].op, procs[p].key)} :
           /\ Len(r.s.mem) <= MaxMem
           /\ h' = r.s.h
           /\ mem' = r.s.mem
           /\ fatal' = r.s.fatal
           /\ procs' = [procs EXCEPT ![p].ptr = r.elem,
                                     ![p].pc = IF r.s.fatal # "" THEN "dead" ELSE "exit",
                                     ![p].out = IF r.s.fatal # "" THEN "fatal" ELSE "run"]
    /\ UNCHANGED <<t, script, budget, shadow, ret, it, seen, snap, iterlog, grown, others>>

\* if h.flags&hashWriting == 0 { throw("concurrent map writes") }
ExitCheck(p) ==
    /\ fatal = ""
    /\ procs[p].pc = "exit"
    /\ fatal' = exitCheck(h)
    /\ procs' = [procs EXCEPT ![p].exitset = HasBit(h.flags, hashWriting),
                              ![p].pc = IF exitCheck(h) # "" THEN "dead" ELSE "cload",
                              ![p].out = IF exitCheck(h) # "" THEN "fatal" ELSE "run"]
    /\ UNCHANGED <<t, h, mem, script, budget, shadow, ret, it, seen, snap, iterlog, grown, others>>

\* the load of h.flags &^= hashWriting
ClearLoad(p) ==
    /\ fatal = ""
    /\ procs[p].pc = "cload"
    /\ procs' = [procs EXCEPT ![p].tmp = h.flags, ![p].pc = "cstore"]
    /\ UNCHANGED <<t, h, mem, fatal, script, budget, shadow, ret, it, seen, snap, iterlog, grown, others>>

\* the store of h.flags &^= hashWriting; mapdelete and mapclear return
ClearStore(p) ==
    /\ fatal = ""
    /\ procs[p].pc = "cstore"
    /\ h' = [h EXCEPT !.flags = ClearBit(procs[p].tmp, hashWriting)]
    /\ procs' = IF procs[p].op = "put"
                THEN [procs EXCEPT ![p].pc = "assign"]
                ELSE [procs EXCEPT ![p].pc = "idle", ![p].out = "ok"]
    /\ UNCHANGED <<t, mem, fatal, script, budget, shadow, ret, it, seen, snap, iterlog, grown, others>>

\* reflect_mapassign: typedmemmove(t.elem, p, elem), after mapassign returned
Assign(p) ==
    /\ fatal = ""
    /\ procs[p].pc = "assign"
    /\ mem' = [mem EXCEPT ![procs[p].ptr.b].elems[procs[p].ptr.i] = MaxElem]
    /\ procs' = [procs EXCEPT ![p].pc = "idle", ![p].out = "ok"]
    /\ UNCHANGED <<t, h, fatal, script, budget, shadow, ret, it, seen, snap, iterlog, grown, others>>

\* the search of a lookup or the scan of mapiternext, after its entry
Read(p) ==
    /\ fatal = ""
    /\ procs[p].pc = "read"
    /\ LET key == procs[p].key
           hash == hasher(key)
           b == lookupBucket(h, mem, hash)
           found == CASE procs[p].op = "get1" -> bucketloop1(mem, b, 0, key, tophash(hash))
                      [] procs[p].op = "get2" -> bucketloop2(mem, b, 0, key, tophash(hash))[1]
                      [] procs[p].op = "getK" -> bucketloopK(mem, b, 0, key, tophash(hash))
                      [] OTHER -> NilPtr
       IN  /\ procs' = [procs EXCEPT ![p].ptr = found, ![p].pc = "idle", ![p].out = "ok"]
           /\ it' = IF procs[p].op = "iternext"
                    THEN iterLoop(t, h, mem, it, it.bucket, it.bptr, it.i, it.checkBucket)
                    ELSE it
    /\ UNCHANGED <<t, h, mem, fatal, script, budget, shadow, ret, seen, snap, iterlog, grown, others>>

NextConc ==
    \/ \E key \in Keys, elem \in Elems : Put(key, elem)
    \/ \E r \in Draws : IterInit(r)
    \/ \E p \in Goroutines, key \in ConcKeys \cup {TrapKey} :
           \E op \in {"put", "del", "get1", "get2", "getK"} : Call(p, op, key)
    \/ \E p \in Goroutines, op \in {"clear", "iternext"} : Call(p, op, 0)
    \/ \E p \in Goroutines : FlagLoad(p)
    \/ \E p \in Goroutines : FlagStore(p)
    \/ \E p \in Goroutines : Body(p)
    \/ \E p \in Goroutines : ExitCheck(p)
    \/ \E p \in Goroutines : ClearLoad(p)
    \/ \E p \in Goroutines : ClearStore(p)
    \/ \E p \in Goroutines : Assign(p)
    \/ \E p \in Goroutines : Read(p)

SpecConc == InitConc /\ [][NextConc]_vars

----------------------------------------------------------------------------
(* Properties *)

Running == fatal = ""

\* the old bucket a key hashes to is not evacuated: lookups search the old array
InOldBucket(key) ==
    /\ growing(h)
    /\ ~evacuated(mem, h.oldbuckets + (hasher(key) % noldbuckets(h)))

\* C1 - Insertion persistence: in every state, a key whose last call was a
\* put of elem V (no delete or clear since) is found by mapaccess1 with *ptr = V,
\* also while a doubling or same-size grow is in progress.
C1_InsertionPersistence ==
    Running =>
        \A k \in Keys :
            shadow[k] # 0 =>
                LET r == mapaccess1(t, h, mem, k)
                IN  /\ r.fatal = "" /\ ~r.panic
                    /\ r.ptr # ZeroValPtr
                    /\ Deref(mem, r.ptr) = shadow[k]

\* an overwritten key that still lives in an unevacuated old bucket of a
\* doubling grow, after a free put
C1_Witness ==
    /\ Running /\ ret.op = "put" /\ script = <<>>
    /\ ~IsSameSizeGrow(h)
    /\ \E k \in Keys : shadow[k] = 2 /\ InOldBucket(k)

\* C2 - Deletion completeness: in every state, a key whose last call was a
\* delete (or that was cleared or never put) is reported absent by mapaccess1
\* (the zero object) and by mapaccess2 (ok = false), also mid-grow.
C2_DeletionCompleteness ==
    Running =>
        \A k \in Keys :
            shadow[k] = 0 =>
                /\ mapaccess1(t, h, mem, k).ptr = ZeroValPtr
                /\ mapaccess2(t, h, mem, k).ptr = ZeroValPtr
                /\ ~mapaccess2(t, h, mem, k).ok

\* a delete that removed an entry while a grow was in progress and is still
\* in progress after it
C2_Witness ==
    /\ Running /\ ret.op = "del" /\ ret.ok /\ script = <<>>
    /\ growing(h)
    /\ shadow[ret.key] = 0

\* the keys mapaccess2 reports present
Present == {k \in Keys : mapaccess2(t, h, mem, k).ok}

\* C3 - Count correctness: in every state h.count is the number of distinct
\* keys mapaccess2 reports present.
C3_CountCorrect == Running => h.count = Cardinality(Present)

\* a grow in progress in a table that has seen free puts and deletes
C3_Witness ==
    /\ Running /\ script = <<>> /\ growing(h)
    /\ h.count > 0 /\ budget < MaxOps - 1 /\ ret.op = "del" /\ ret.ok

\* C4 - The three lookups agree: with no writer active, for every key,
\* mapaccess1 returns the zero object iff mapaccess2 returns ok = false iff
\* mapaccessK returns nil; otherwise the three return the same elem cell;
\* mapaccess1 never returns nil.
C4_LookupsAgree ==
    (Running /\ ~HasBit(h.flags, hashWriting)) =>
        \A k \in Keys :
            LET r1 == mapaccess1(t, h, mem, k)
                r2 == mapaccess2(t, h, mem, k)
                rK == mapaccessK(t, h, mem, k)
            IN  /\ r1.ptr # NilPtr
                /\ (r1.ptr = ZeroValPtr) <=> ~r2.ok
                /\ ~r2.ok <=> (rK.kptr = NilPtr)
                /\ r2.ok => (r1.ptr = r2.ptr /\ r2.ptr = rK.ptr /\ rK.kptr = rK.ptr)
                /\ ~r2.ok => (r2.ptr = ZeroValPtr /\ rK.ptr = NilPtr)

\* mid-grow, one key found in an unevacuated old bucket, one in the new
\* array and one absent
C4_Witness ==
    /\ Running /\ growing(h)
    /\ \E k1, k2, k3 \in Keys :
        /\ mapaccess2(t, h, mem, k1).ok /\ InOldBucket(k1)
        /\ mapaccess2(t, h, mem, k2).ok /\ ~InOldBucket(k2)
        /\ ~mapaccess2(t, h, mem, k3).ok

\* the number of times the range loop has yielded key k
TimesSeen(k) == Cardinality({j \in 1 .. Len(seen) : seen[j][1] = k})

\* the range loop has signalled the end (or found the table empty at once)
IterEnded == iterlog.started /\ it.key = NilPtr

\* C5 - Iteration coverage under grow: a key present at mapiterinit and not
\* deleted or cleared since is never yielded twice, and when mapiternext
\* signals the end it has been yielded exactly once, whatever puts, deletes
\* of other keys and grows happened between the calls.
C5_IterCoverage ==
    (Running /\ iterlog.started) =>
        \A k \in Keys :
            (snap[k] # 0 /\ k \notin iterlog.removed) =>
                /\ TimesSeen(k) <= 1
                /\ IterEnded => TimesSeen(k) = 1

\* the loop ended after it was started mid-grow and a write evacuated more
C5_Witness ==
    /\ Running /\ IterEnded /\ it.hasH /\ iterlog.written
    /\ it.B = h.B /\ Len(seen) > 20

\* C6 - With no write since mapiterinit, when the end is signalled the loop
\* has yielded exactly the (key, elem) pairs of the table, each once, and a
\* further mapiternext signals the end again.
C6_WriteFreeIteration ==
    (Running /\ iterlog.started /\ ~iterlog.written) =>
        /\ iterlog.after > 0 => it.key = NilPtr
        /\ IterEnded =>
            /\ Len(seen) = Cardinality({k \in Keys : snap[k] # 0})
            /\ \A k \in Keys :
                snap[k] # 0 =>
                    Cardinality({j \in 1 .. Len(seen) : seen[j] = <<k, snap[k]>>}) = 1

\* a write-free loop over a table that was mid-grow at mapiterinit, called
\* once more after its end
C6_Witness ==
    /\ Running /\ IterEnded /\ ~iterlog.written /\ iterlog.after > 0
    /\ growing(h) /\ Len(seen) > 8

\* C7 - The iterator yields no absent key: the key mapiternext returns is in
\* the table at that moment and the elem returned is its current elem.
C7_NoStaleYield ==
    (Running /\ ret.op \in {"iterinit", "iternext"} /\ ret.key # 0) =>
        /\ shadow[ret.key] # 0
        /\ Deref(mem, ret.ptr) = shadow[ret.key]

\* the calls claim C8 speaks of: a mutating call p and a mutating call, get
\* or iter-next q that overlapped it
Overlapped(p, q) ==
    /\ p # q
    /\ q \in procs[p].ov /\ p \in procs[q].ov
    /\ procs[p].op \in Mutating
    /\ procs[q].op \in Mutating \cup {"get1", "get2", "iternext"}

\* the entry of the last call of p returns before the check of the flag
EmptyReturn(p) ==
    procs[p].op \in {"get1", "get2", "del", "clear"} /\ procs[p].incount = 0

\* no check of the last call of p saw the other call: its entry check did not
\* read the flag set, and its exit check (if it came to set the flag) did not
\* read it clear
Unseen(p) ==
    /\ procs[p].inset => EmptyReturn(p)
    /\ procs[p].wrote => procs[p].exitset

\* C8 as stated - two mutating calls that were inside mapassign, mapdelete
\* or mapclear at the same time and both came to set the flag never both
\* return normally.
C8_OverlapAborts ==
    \A p, q \in Goroutines :
        (/\ Overlapped(p, q) /\ q \in procs[p].rt /\ p \in procs[q].rt
         /\ procs[p].wrote /\ procs[q].wrote) =>
            ~(procs[p].out = "ok" /\ procs[q].out = "ok")

\* C8 - Concurrency detection, best effort: two overlapping calls (one of
\* them mutating) both return normally only if no check saw the other call,
\* that is no entry check past the empty-table return read the flag set and
\* no exit check read it clear; a check that does see it aborts the call.
C8_BestEffortDetection ==
    \A p, q \in Goroutines :
        (Overlapped(p, q) /\ procs[p].out = "ok" /\ procs[q].out = "ok") =>
            (Unseen(p) /\ Unseen(q))

\* two puts, deletes or clears that were inside the map functions at the
\* same time, both set the flag and both returned
C8_Witness ==
    /\ Running
    /\ \E p, q \in Goroutines :
        /\ Overlapped(p, q) /\ q \in procs[p].rt /\ p \in procs[q].rt
        /\ procs[p].wrote /\ procs[q].wrote
        /\ procs[p].out = "ok" /\ procs[q].out = "ok"

\* C9 as stated - every call (with a key its hasher accepts) entered while
\* the flag is set raises the fatal error, whatever count is.
C9_EveryEntryThrows ==
    \A p \in Goroutines :
        (procs[p].inset /\ procs[p].op # "none" /\ procs[p].key # TrapKey) =>
            procs[p].out = "fatal"

\* C9 - A put or iter-next entered while the flag is set raises the fatal
\* error before it reads or changes the table; a get, get-with-presence,
\* delete or clear does so when count # 0 and returns without the check when
\* count = 0; get-key-and-value never raises it.
C9_EntryCheck ==
    \A p \in Goroutines :
        procs[p].inset =>
            /\ (procs[p].op \in {"put", "iternext"}
                    \/ (procs[p].op \in {"get1", "get2", "del", "clear"}
                            /\ procs[p].incount # 0))
                 => (/\ procs[p].out = "fatal" /\ procs[p].pc = "dead"
                     /\ fatal \in {"concurrent map writes",
                                   "concurrent map read and map write",
                                   "concurrent map iteration and map write"}
                     /\ ~procs[p].wrote /\ procs[p].ptr = NilPtr)
            /\ EmptyReturn(p) => (procs[p].out \in {"ok", "panic"} /\ procs[p].pc = "idle")
            /\ procs[p].op = "getK" => procs[p].out # "fatal"

\* a get of a table that is not empty, entered while a writer had the flag
\* set, threw
C9_Witness ==
    \E p \in Goroutines :
        /\ procs[p].inset /\ procs[p].op = "get1" /\ procs[p].incount # 0
        /\ procs[p].out = "fatal"
        /\ fatal = "concurrent map read and map write"

\* the goroutine is between the store that sets the flag and the store that
\* clears it
InWrite(p) == procs[p].pc \in {"body", "exit", "cload", "cstore"}

HashTrapped == ret'.panic /\ ret'.op \in {"put", "del"} /\ ret'.key = TrapKey

\* the step is a put or delete that ended in a panic of t.key.equal
EqualTrapped == ret'.panic /\ ret'.op \in {"put", "del"} /\ ret'.key = EqTrapKey

\* C11 as stated - a put or delete that ends in a trap of the hasher or of
\* the key equality leaves the header (flags, count, B, grow progress) and
\* the buckets as they were before the call.
C11_TrapLeavesTable ==
    [][(HashTrapped \/ EqualTrapped) => (h' = h /\ mem' = mem)]_vars

\* C11 - A trap of the hasher during put or delete comes before the flag is
\* set and before any change: header and buckets are as before the call.  A
\* trap of the key equality comes in the search of the chain, after the flag
\* is set and after the grow work of the call: it leaves hashWriting set,
\* count and B as before, and when no grow was in progress everything but
\* the flag as before.
C11_TrapOrder ==
    [][/\ HashTrapped => (h' = h /\ mem' = mem)
       /\ EqualTrapped =>
            /\ HasBit(h'.flags, hashWriting)
            /\ h'.count = h.count /\ h'.B = h.B
            /\ ~growing(h) =>
                  (h' = [h EXCEPT !.flags = SetBit(h.flags, hashWriting)] /\ mem' = mem)]_vars

\* a put ended in a trap of the hasher while a grow was in progress
C11_Witness ==
    /\ Running /\ ret.panic /\ ret.op = "put" /\ ret.key = TrapKey
    /\ growing(h) /\ h.count > 0 /\ script = <<>>

\* from cell i of bucket b to the end of the chain, no cell that is not
\* emptyRest follows an emptyRest cell; rest tells that one has been met
RECURSIVE RestIsSuffix(_, _, _, _)
RestIsSuffix(m, b, i, rest) ==
    IF b = 0 THEN TRUE
    ELSE IF i = bucketCnt THEN RestIsSuffix(m, m[b].overflow, 0, rest)
    ELSE IF m[b].tophash[i] = emptyRest THEN RestIsSuffix(m, b, i + 1, TRUE)
    ELSE ~rest /\ RestIsSuffix(m, b, i + 1, rest)

\* the first buckets of the chains lookups walk: the current array and the
\* old buckets not yet evacuated
ChainHeads ==
    (IF h.buckets = 0 THEN {} ELSE {h.buckets + j : j \in 0 .. (bucketShift(h.B) - 1)})
    \cup (IF ~growing(h) THEN {}
          ELSE {b \in {h.oldbuckets + j : j \in 0 .. (noldbuckets(h) - 1)} :
                    ~evacuated(mem, b)})

\* C12 - Chain-walk short-circuit invariant: between calls, in every chain of
\* the current array and of every old bucket not yet evacuated, emptyRest is
\* only a suffix: no occupied (or emptyOne) cell follows an emptyRest cell.
C12_EmptyRestSuffix ==
    Running => \A b \in ChainHeads : RestIsSuffix(mem, b, 0, FALSE)

\* after a free delete mid-grow, a chain with an overflow bucket holds a
\* freed cell before an occupied one, and another chain ends in emptyRest
C12_Witness ==
    /\ Running /\ ret.op = "del" /\ ret.ok /\ script = <<>> /\ growing(h)
    /\ \E b \in ChainHeads :
        /\ mem[b].overflow # 0
        /\ \E i \in 0 .. (bucketCnt - 2) :
            mem[b].tophash[i] = emptyOne /\ mem[b].tophash[i + 1] >= minTopHash
    /\ \E b \in ChainHeads : mem[b].tophash[bucketCnt - 1] = emptyRest

\* the old buckets of the grow in progress
OldBuckets == {h.oldbuckets + j : j \in 0 .. (noldbuckets(h) - 1)}

\* C13 - Evacuation monotonicity: while one grow is in progress (the old
\* array is the same before and after the call) h.nevacuate never decreases,
\* and an old bucket whose tophash[0] is an evacuated mark keeps such a mark,
\* also when evacuate has cleared its keys and elems.
C13_EvacuationMonotone ==
    [][(growing(h) /\ h'.oldbuckets = h.oldbuckets) =>
          /\ h'.nevacuate >= h.nevacuate
          /\ \A b \in OldBuckets : evacuated(mem, b) => evacuated(mem', b)]_vars

\* mid-grow after a further call: the cursor has moved on, and an old bucket
\* above it was evacuated out of turn and its keys were cleared
C13_Witness ==
    /\ Running /\ growing(h) /\ t.ptrdata /\ grown.calls >= 1 /\ h.nevacuate >= 2
    /\ \E b \in OldBuckets :
        /\ b > h.oldbuckets + h.nevacuate
        /\ evacuated(mem, b)
        /\ mem[b].tophash[0] \in {evacuatedX, evacuatedY}
        /\ \A c \in Cells : mem[b].keys[c] = 0

\* C14 as stated - after puts only, whenever no grow is in progress,
\* count <= (13/2) * 2^B.
C14_LoadFactorBound ==
    (Running /\ ~growing(h)) =>
        loadFactorDen * h.count <= loadFactorNum * bucketShift(h.B)

\* C14 - Load factor bound: after puts only on a fresh table, whenever no
\* grow is in progress, count <= max(bucketCnt, (13/2) * 2^B): the load
\* factor applies once the table holds more than one bucket's worth.
C14_LoadFactorOrOneBucket ==
    (Running /\ ~growing(h)) =>
        \/ h.count <= bucketCnt
        \/ loadFactorDen * h.count <= loadFactorNum * bucketShift(h.B)

\* a table at its load factor: 26 entries in four buckets after two doubling
\* grows have completed
C14_Witness ==
    /\ Running /\ ~growing(h) /\ ret.op = "put"
    /\ h.B = 2 /\ h.count = 26 /\ h.buckets # 0 /\ Len(mem) > 4

\* when no grow is in progress the old overflow registry is released and the
\* sameSizeGrow flag is clear (h.oldbuckets is nil by the definition of growing)
GrowReleased ==
    /\ h.oldbuckets = 0
    /\ h.extra.isnil \/ h.extra.oldoverflow = NilReg
    /\ ~IsSameSizeGrow(h)

\* C15 as stated - once a grow has begun, fewer than (old array size) put or
\* delete calls return while it is still in progress, and when it is over
\* the old array, the old overflow registry and the sameSizeGrow flag are gone.
C15_GrowCompletes ==
    Running =>
        /\ growing(h) => grown.calls < noldbuckets(h)
        /\ ~growing(h) => GrowReleased

\* C15 - Every grow completes under continued writes that do grow work: once
\* a grow has begun, fewer than (old array size) puts, and deletes on a table
\* that is not empty, return while it is still in progress (each moves the
\* cursor on by one bucket at least); when it is over the old array, the old
\* overflow registry and the sameSizeGrow flag are gone.  A delete on an
\* empty table returns before growWork and does not count.
C15_GrowCompletesByWork ==
    Running =>
        /\ growing(h) => (grown.work < noldbuckets(h) /\ grown.work < h.nevacuate)
        /\ ~growing(h) => GrowReleased

\* a same-size grow has just completed, by a free delete, after further
\* calls that did grow work
C15_Witness ==
    /\ Running /\ ~growing(h) /\ GrowReleased /\ script = <<>>
    /\ ret.op = "del" /\ ret.ok /\ budget <= MaxOps - 2
    /\ h.nevacuate = bucketShift(h.B) /\ h.B = 2 /\ h.noverflow = 0

\* the table as C16 says clear leaves it
Cleared ==
    /\ h.count = 0 /\ h.noverflow = 0 /\ h.nevacuate = 0
    /\ h.oldbuckets = 0 /\ ~IsSameSizeGrow(h)
    /\ h.extra.isnil \/ (h.extra.overflow = NilReg /\ h.extra.oldoverflow = NilReg)
    /\ h.buckets # 0 =>
        \A j \in 0 .. (bucketShift(h.B) - 1) :
            /\ \A c \in Cells : mem[h.buckets + j].tophash[c] = emptyRest
            /\ h.B < 4 => mem[h.buckets + j].overflow = 0
    /\ \A k \in Keys :
        /\ mapaccess1(t, h, mem, k).ptr = ZeroValPtr
        /\ ~mapaccess2(t, h, mem, k).ok

\* the step is a clear that returned
ClearReturned == ret'.op = "clear" /\ fatal' = ""

\* C16 as stated - after clear returns, whatever the table was: B is as
\* before, count, noverflow and the cursor are 0, no grow is in progress, the
\* overflow registries are empty, every cell of the current array is
\* emptyRest and every lookup misses.
C16_ClearResets ==
    [][ClearReturned => (h'.B = h.B /\ Cleared')]_vars

\* C16 - After clear returns on a table that was not empty: B is as before,
\* count, noverflow and the cursor are 0, no grow is in progress, the
\* overflow registries are empty, every cell of the current array is
\* emptyRest and every lookup misses.  On an empty table (count = 0) clear
\* returns at once and leaves header and buckets as they were.
C16_ClearResetsNonEmpty ==
    [][ClearReturned =>
          IF h.count = 0 THEN h' = h /\ mem' = mem
          ELSE h'.B = h.B /\ Cleared']_vars

\* a clear has returned on a table that the call before had put into a
\* doubling grow to eight buckets
C16_Witness ==
    /\ Running /\ ret.op = "clear" /\ script = <<>> /\ budget = MaxOps - 2
    /\ h.B = 3 /\ h.count = 0 /\ h.buckets # 0 /\ ~growing(h)

\* the number of cells of the heap that hold an entry with key k
Entries(m, k) ==
    Cardinality({c \in (1 .. Len(m)) \X Cells :
                    m[c[1]].tophash[c[2]] >= minTopHash /\ m[c[1]].keys[c[2]] = k})

\* a put of a NaN that returned leaves one entry more, in the count and in
\* the cells that hold the key
NaNPutAdds ==
    (ret'.op = "put" /\ IsNaN(ret'.key) /\ ~ret'.panic /\ fatal' = "") =>
        /\ h'.count = h.count + 1
        /\ Entries(mem', ret'.key) = Entries(mem, ret'.key) + 1
        /\ Deref(mem', ret'.ptr) = 1

\* no lookup finds a NaN, and a range loop without writes has yielded as
\* many entries as the table counts, each NaN as often as it was put
NaNMissedAndCounted ==
    Running =>
        /\ \A k \in NaNs :
               /\ ~mapaccess2(t, h, mem, k).ok
               /\ mapaccess1(t, h, mem, k).ptr = ZeroValPtr
               /\ mapaccessK(t, h, mem, k).kptr = NilPtr
        /\ (ret.op = "get" /\ IsNaN(ret.key)) => ~ret.ok /\ ret.ptr = ZeroValPtr
        /\ (IterEnded /\ ~iterlog.written) =>
               /\ Len(seen) = h.count
               /\ \A k \in NaNs : TimesSeen(k) = snap[k]

\* C17 - Keys never equal to themselves: every put of a NaN adds an entry
\* and increases count by one without updating a cell, every get of a NaN
\* misses, and a range loop without writes yields exactly count entries.
C17_NaNKeys == []NaNMissedAndCounted /\ [][NaNPutAdds]_vars

\* a loop without writes has ended over ten NaNs, two of them put with the
\* same key object, after the table doubled
C17_Witness ==
    /\ Running /\ IterEnded /\ ~iterlog.written /\ ret.op = "iternext"
    /\ h.count = 10 /\ Len(seen) = 10 /\ h.B = 1
    /\ shadow[NaNBase + MaxNaN] = 2
    /\ \A k \in Keys : shadow[k] = 0

\* C18 - A range loop started while a grow (doubling or same-size) is in
\* progress yields every NaN entry present at mapiterinit exactly once,
\* whatever writes between the mapiternext calls evacuate the bucket being
\* iterated, complete the grow or start a further grow: a NaN key object to
\* which no entry was added since is never yielded more often than it was
\* put, and exactly that often when the end is signalled.
C18_NaNIterCoverage ==
    (Running /\ iterlog.started /\ iterlog.midgrow) =>
        \A k \in NaNs :
            (snap[k] # 0 /\ shadow[k] = snap[k] /\ k \notin iterlog.removed) =>
                /\ TimesSeen(k) <= snap[k]
                /\ IterEnded => TimesSeen(k) = snap[k]

\* delete has returned from a call with the NaN key the iterator yielded
NaNDeleteReturned == ret'.op = "delnan" /\ ~ret'.panic /\ fatal' = ""

\* C19 - A NaN key yielded by the iterator is deleted by passing the
\* iterator's key to delete: after the delete the entry is gone and count
\* has decreased by one.
C19_NaNDeletable ==
    [][NaNDeleteReturned =>
          /\ h'.count = h.count - 1
          /\ Entries(mem', ret'.key) = Entries(mem, ret'.key) - 1]_vars

\* C19 as the code has it: delete compares with t.key.equal alone, so a call
\* with the NaN key the iterator yielded removes nothing: count, the cells
\* holding the key and the elem the iterator points at stay as they are.
C19_NaNNotDeletable ==
    [][NaNDeleteReturned =>
          /\ h'.count = h.count
          /\ Entries(mem', ret'.key) = Entries(mem, ret'.key)
          /\ ~ret'.ok
          /\ ~mapaccess2(t, h', mem', ret'.key).ok]_vars

\* delete was called with a NaN the range loop had yielded, in a table that
\* holds the key, and removed nothing
C19_Witness ==
    /\ Running /\ ret.op = "delnan" /\ ~ret.ok
    /\ IsNaN(ret.key) /\ TimesSeen(ret.key) = 1
    /\ Entries(mem, ret.key) = 1

\* the goroutines between the return of Lock and the call of Unlock
Holders == {g \in DOMAIN lk : lk[g].pc = "held"}

\* C20 - sync.Mutex mutual exclusion: in every interleaving of Lock and
\* Unlock (fast path, spinning, wake-up in normal mode and hand-off in
\* starvation mode) at most one goroutine is between the return of its Lock
\* and its call of Unlock, and the mutex never throws.
C20_MutualExclusion == fatal = "" /\ Cardinality(Holders) <= 1

\* a goroutine holds the mutex that was handed to it in starvation mode,
\* while another sleeps on the semaphore and the third spins or retries
C20_Witness ==
    \E g1, g2, g3 \in DOMAIN lk :
        /\ lk[g1].pc = "held" /\ lk[g1].waited /\ HasBit(lk[g1].old, mutexStarving)
        /\ lk[g2].pc = "sleep"
        /\ lk[g3].pc = "load" /\ lk[g3].iter > 0

\* the buckets of the chain that starts at bucket b
RECURSIVE ChainOf(_, _)
ChainOf(m, b) == IF b = 0 THEN {} ELSE {b} \cup ChainOf(m, m[b].overflow)

\* the tophash bytes of the chain that starts at bucket b
ChainMarks(b) == {mem[c].tophash[i] : c \in ChainOf(mem, b), i \in Cells}

\* C23 - Between calls every bucket of the old array, with its overflow
\* chain, is either entirely unevacuated (each cell emptyRest, emptyOne or a
\* tophash >= minTopHash) or entirely evacuated (each cell evacuatedX,
\* evacuatedY or evacuatedEmpty).
C23_OldChainUniform ==
    (Running /\ growing(h)) =>
        \A b \in OldBuckets :
            \/ \A top \in ChainMarks(b) : isEmpty(top) \/ top >= minTopHash
            \/ ChainMarks(b) \subseteq {evacuatedX, evacuatedY, evacuatedEmpty}

\* mid-grow: an evacuated old chain of two buckets with moved and empty
\* cells next to an unevacuated one of two buckets with a freed cell
C23_Witness ==
    /\ Running /\ growing(h)
    /\ \E b1, b2 \in OldBuckets :
        /\ evacuated(mem, b1) /\ mem[b1].overflow # 0
        /\ evacuatedEmpty \in ChainMarks(b1) /\ evacuatedX \in ChainMarks(b1)
        /\ ~evacuated(mem, b2) /\ mem[b2].overflow # 0
        /\ emptyOne \in ChainMarks(b2)

\* C24 - Cursor invariant: while a grow is in progress 0 <= nevacuate, every
\* old bucket below nevacuate is evacuated, and nevacuate is below the size
\* of the old array: it reaches that size only in the call that releases
\* the old array, and stands at the size of the released array afterwards.
C24_CursorInvariant ==
    /\ (Running /\ growing(h)) =>
           /\ 0 <= h.nevacuate /\ h.nevacuate < noldbuckets(h)
           /\ \A j \in 0 .. (h.nevacuate - 1) : evacuated(mem, h.oldbuckets + j)
    /\ (Running /\ ~growing(h) /\ grown.calls = 0 /\ h.nevacuate # 0) =>
           h.nevacuate \in {bucketShift(h.B), bucketShift(h.B) \div 2}

\* the cursor stands at the last old bucket, which is not evacuated yet
C24_Witness ==
    /\ Running /\ growing(h) /\ noldbuckets(h) = 4
    /\ h.nevacuate = noldbuckets(h) - 1
    /\ ~evacuated(mem, h.oldbuckets + h.nevacuate)

\* the buckets of the current array
NewBuckets == {h.buckets + j : j \in 0 .. (bucketShift(h.B) - 1)}

\* the flag is set only during a grow, and what noldbuckets takes for the
\* old array lies in the heap apart from the current array
GrowStateConsistent ==
    Running =>
        /\ IsSameSizeGrow(h) => growing(h)
        /\ growing(h) =>
               /\ IsSameSizeGrow(h) \/ h.B >= 1
               /\ oldbucketmask(h) = noldbuckets(h) - 1
               /\ OldBuckets \subseteq 1 .. Len(mem)
               /\ OldBuckets \cap NewBuckets = {}

\* a call that leaves a grow it did not find has made the current array the
\* old one, and noldbuckets is the size that array had; a call that leaves
\* the grow it found leaves noldbuckets alone
GrowSizeKept ==
    (fatal' = "" /\ growing(h')) =>
        IF h'.oldbuckets # h.oldbuckets
        THEN /\ h'.oldbuckets = h.buckets
             /\ noldbuckets(h') = bucketShift(h.B)
             /\ h'.B = IF IsSameSizeGrow(h') THEN h.B ELSE h.B + 1
        ELSE noldbuckets(h') = noldbuckets(h)

\* C25 - Grow-state consistency: oldbuckets is non-null iff a grow is in
\* progress, the sameSizeGrow flag is set only while oldbuckets is non-null,
\* and the old array has 2^B buckets when the flag is set and 2^(B-1)
\* buckets (B >= 1) when it is clear, so that noldbuckets and oldbucketmask
\* describe the real old array.
C25_GrowStateConsistent == []GrowStateConsistent /\ [][GrowSizeKept]_vars

\* a same-size grow of four buckets that a later call found in progress
C25_Witness ==
    /\ Running /\ growing(h) /\ IsSameSizeGrow(h)
    /\ h.B = 2 /\ noldbuckets(h) = 4 /\ grown.calls >= 1 /\ h.nevacuate = 2

\* the call has run hashGrow: the table has a new current array
Grew == h.buckets # 0 /\ h'.buckets # h.buckets

\* count + 1 > 8 and count + 1 > 6.5 * 2^B
OverLoad == h.count + 1 > 8 /\ 2 * (h.count + 1) > 13 * Pow2(h.B)

\* noverflow >= 2^min(B, 15)
ManyOverflow == h.noverflow >= Pow2(IF h.B < 15 THEN h.B ELSE 15)

\* the call was a put that returned, of a key the table did not hold
PutAbsent ==
    /\ ret'.op = "put" /\ ~ret'.panic
    /\ ~mapaccess2(t, h, mem, ret'.key).ok

\* C26 - A grow starts only inside a put of an absent key; from a table
\* with no grow in progress it starts exactly when count + 1 > 8 and
\* count + 1 > 6.5 * 2^B, or noverflow >= 2^min(B, 15); it doubles (B + 1,
\* flag clear) iff count + 1 exceeds the load factor and is a same-size grow
\* (B unchanged, flag set while it lasts) otherwise.  Puts of present keys,
\* deletes, lookups and clear never start a grow and never change B.
C26_GrowTrigger ==
    [][fatal' = "" =>
          /\ Grew => PutAbsent
          /\ ~growing(h) => (Grew <=> (PutAbsent /\ (OverLoad \/ ManyOverflow)))
          /\ Grew => IF OverLoad
                     THEN h'.B = h.B + 1 /\ ~IsSameSizeGrow(h')
                     ELSE h'.B = h.B /\ (growing(h') => IsSameSizeGrow(h'))
          /\ ~Grew => h'.B = h.B /\ (IsSameSizeGrow(h') => IsSameSizeGrow(h))]_vars

\* a same-size grow has just been started by a put, with count + 1 below
\* the load factor
C26_Witness ==
    /\ Running /\ ret.op = "put" /\ growing(h) /\ IsSameSizeGrow(h)
    /\ grown.calls = 0 /\ h.B = 2 /\ h.count < 26

\* a put or a delete that found a grow in progress has reached growWork and
\* returned: the hash did not trap and the delete did not find count = 0
GrowWorkDone ==
    /\ growing(h) /\ fatal' = "" /\ ~ret'.panic
    /\ ret'.op = "put" \/ (ret'.op = "del" /\ h.count # 0)

\* C27 - While a grow is in progress every put and delete that reaches
\* growWork evacuates the old bucket of its key and then the old bucket at
\* the cursor: on return the call has either left the grow with both
\* buckets evacuated and a greater nevacuate, or completed it, with every
\* old bucket evacuated and, unless the put began a new grow, the cursor
\* at the size of the old array (the second evacuation is skipped when
\* the first completes the grow).
C27_GrowWorkProgress ==
    [][GrowWorkDone =>
          IF h'.oldbuckets = h.oldbuckets
          THEN /\ h'.nevacuate > h.nevacuate
               /\ evacuated(mem', h.oldbuckets + (hasher(ret'.key) % noldbuckets(h)))
               /\ evacuated(mem', h.oldbuckets + h.nevacuate)
          ELSE /\ \A b \in OldBuckets : evacuated(mem', b)
               /\ h'.buckets = h.buckets =>
                      ~growing(h') /\ h'.nevacuate = noldbuckets(h)]_vars

\* a delete of a present key mid-grow has evacuated two more buckets and
\* left the grow in progress
C27_Witness ==
    /\ Running /\ ret.op = "del" /\ ret.ok /\ growing(h)
    /\ grown.work >= 1 /\ h.nevacuate >= 1 /\ noldbuckets(h) = 4
    /\ evacuated(mem, h.oldbuckets + (hasher(ret.key) % noldbuckets(h)))

----------------------------------------------------------------------------
\* hashGrow and evacuate taken one call at a time: the steps inside mapassign
\* and mapdelete between which the caller stores nothing

\* hashGrow(t, h) as mapassign calls it at lines 730-733
HashGrow ==
    /\ fatal = "" /\ script = <<>> /\ budget > 0
    /\ h.buckets # 0 /\ needGrow(h)
    /\ \E s2 \in {hashGrow(S)} :
           /\ Len(s2.mem) <= MaxMem
           /\ h' = s2.h /\ mem' = s2.mem /\ fatal' = s2.fatal
    /\ budget' = 0
    /\ ret' = [NoRet EXCEPT !.op = "grow"]
    /\ grown' = NoCalls
    /\ UNCHANGED <<t, script, shadow, it, seen, snap, iterlog, procs, others>>

\* evacuate(t, h, oldbucket) as growWork calls it at lines 1227 and 1231
Evacuate(oldbucket) ==
    /\ fatal = "" /\ script = <<>>
    /\ growing(h) /\ oldbucket < noldbuckets(h)
    /\ \E s2 \in {evacuate(t, S, oldbucket)} :
           /\ Len(s2.mem) <= MaxMem
           /\ h' = s2.h /\ mem' = s2.mem /\ fatal' = s2.fatal
    /\ budget' = 0
    /\ ret' = [NoRet EXCEPT !.op = "evacuate", !.key = oldbucket]
    /\ grown' = NoCalls
    /\ UNCHANGED <<t, script, shadow, it, seen, snap, iterlog, procs, others>>

NextEvac ==
    \/ \E key \in Keys, elem \in Elems : Put(key, elem)
    \/ \E key \in Keys : Delete(key)
    \/ HashGrow
    \/ \E oldbucket \in 0 .. 3 : Evacuate(oldbucket)

SpecEvac == Init /\ [][NextEvac]_vars

\* what get(m, k) observes: whether the key is there, and its value
Observed(hd, m, k) ==
    LET r == mapaccess2(t, hd, m, k) IN <<r.ok, Deref(m, r.ptr)>>

\* the cells of the chain that starts at bucket b that hold an entry
LiveCells(m, b) ==
    {c \in ChainOf(m, b) \X Cells : m[c[1]].tophash[c[2]] >= minTopHash}

\* the bucket of the current array that evacuate(oldbucket) must move key k to
Destination(oldbucket, k) ==
    IF ~IsSameSizeGrow(h) /\ (hasher(k) \div noldbuckets(h)) % 2 = 1
    THEN oldbucket + noldbuckets(h)
    ELSE oldbucket

\* starting a grow keeps the count, what get observes, and every bucket
GrowStartFrame ==
    (ret'.op = "grow" /\ fatal' = "") =>
        /\ h'.count = h.count
        /\ \A k \in Keys : Observed(h', mem', k) = Observed(h, mem, k)
        /\ \A b \in 1 .. Len(mem) : mem'[b] = mem[b]

\* evacuating old bucket ret'.key keeps the count and what get observes,
\* moves each entry of the old chain to its destination and nowhere else, and
\* leaves every bucket outside the old chain and its two destinations alone
EvacuateFrame ==
    (ret'.op = "evacuate" /\ fatal' = ""
        /\ ~evacuated(mem, h.oldbuckets + ret'.key)) =>
        LET old == h.oldbuckets + ret'.key
            x == h.buckets + ret'.key
            y == IF IsSameSizeGrow(h) THEN 0 ELSE x + noldbuckets(h)
        IN  /\ h'.count = h.count
            /\ \A k \in Keys : Observed(h', mem', k) = Observed(h, mem, k)
            /\ \A c \in LiveCells(mem, old) :
                   LET k == mem[c[1]].keys[c[2]]
                   IN  /\ \E d \in LiveCells(mem', h.buckets + Destination(ret'.key, k)) :
                              /\ mem'[d[1]].keys[d[2]] = k
                              /\ mem'[d[1]].elems[d[2]] = mem[c[1]].elems[c[2]]
                       /\ Entries(mem', k) = 1
            /\ \A b \in 1 .. Len(mem) :
                   b \notin ChainOf(mem, old) \cup ChainOf(mem', x) \cup ChainOf(mem', y)
                       => mem'[b] = mem[b]

\* C28 - Starting a grow and evacuating a bucket change neither count nor
\* what get observes; evacuating old bucket i moves each entry to new bucket
\* i when the hash bit of the old array size is 0 and to i + that size when it
\* is 1 (same-size grow: always i), each entry arrives in exactly one
\* destination, and no bucket outside the old chain and the destination
\* chains changes.
C28_EvacuateFrame == [][GrowStartFrame /\ EvacuateFrame]_vars

\* an evacuation of a doubling grow has just sent entries of one old chain to
\* both halves of the current array
C28_Witness ==
    /\ Running /\ ret.op = "evacuate" /\ h.oldbuckets # 0 /\ ~IsSameSizeGrow(h)
    /\ LiveCells(mem, h.buckets + ret.key) # {}
    /\ LiveCells(mem, h.buckets + ret.key + noldbuckets(h)) # {}
    /\ evacuated(mem, h.oldbuckets + ret.key)

\* the buckets of the chain that starts at bucket b, in chain order
RECURSIVE ChainList(_, _)
ChainList(m, b) == IF b = 0 THEN <<>> ELSE <<b>> \o ChainList(m, m[b].overflow)

\* the cells that come before cell c in the chain that starts at bucket b
CellsBefore(m, b, c) ==
    LET l == ChainList(m, b)
        At(d) == CHOOSE j \in 1 .. Len(l) : l[j] = d
    IN  {d \in ChainOf(m, b) \X Cells :
            \/ At(d[1]) < At(c.b)
            \/ d[1] = c.b /\ d[2] < c.i}

\* the chain of key k in the current array of table hd
HomeBucket(hd, k) == hd.buckets + (hasher(k) % bucketShift(hd.B))

\* a put that returned
PutDone == ret'.op = "put" /\ ~ret'.panic /\ fatal' = "" /\ ret'.key \in Keys

\* a put of a present key returns the cell that holds its value and keeps
\* count, B, noverflow and what get observes for every other key
PresentPutFrame ==
    (PutDone /\ ret'.key \in Present) =>
        /\ ret'.ptr = mapaccess2(t, h', mem', ret'.key).ptr
        /\ ~growing(h) => ret'.ptr = mapaccess2(t, h, mem, ret'.key).ptr
        /\ h'.count = h.count /\ h'.B = h.B /\ h'.noverflow = h.noverflow
        /\ \A k \in Keys \ {ret'.key} : Observed(h', mem', k) = Observed(h, mem, k)

\* a put of an absent key takes the first empty cell of its chain, a new
\* overflow bucket only when the chain has none, and adds one to count
AbsentPutFrame ==
    (PutDone /\ h.buckets # 0 /\ ret'.key \notin Present) =>
        LET b == HomeBucket(h', ret'.key)
        IN  /\ h'.count = h.count + 1
            /\ ret'.ptr.b \in ChainOf(mem', b)
            /\ mem'[ret'.ptr.b].keys[ret'.ptr.i] = ret'.key
            /\ \A d \in CellsBefore(mem', b, ret'.ptr) :
                   ~isEmpty(mem'[d[1]].tophash[d[2]])
            /\ h'.buckets = h.buckets /\ ~growing(h) =>
                   /\ Len(mem') > Len(mem) =>
                          /\ ret'.ptr.b = Len(mem')
                          /\ \A d \in ChainOf(mem, b) \X Cells :
                                 ~isEmpty(mem[d[1]].tophash[d[2]])
                   /\ Len(mem') = Len(mem) =>
                          isEmpty(mem[ret'.ptr.b].tophash[ret'.ptr.i])

\* C29 - put of a present key returns the existing value cell and leaves
\* count, B, noverflow and every other key's value unchanged; put of an
\* absent key stores it in the first empty cell, in chain order, of its
\* chain, allocates an overflow bucket only when the whole chain has no empty
\* cell, and increases count by exactly one.
C29_PutFrame == [][PresentPutFrame /\ AbsentPutFrame]_vars

\* a put of a present key returns the cell that holds its value and keeps
\* count, B and what get observes for every other key; outside a grow the
\* cell is the one that held the value before and noverflow stays, during a
\* grow the evacuations of the put may add overflow buckets
PresentPutKeeps ==
    (PutDone /\ ret'.key \in Present) =>
        /\ ret'.ptr = mapaccess2(t, h', mem', ret'.key).ptr
        /\ h'.count = h.count /\ h'.B = h.B
        /\ \A k \in Keys \ {ret'.key} : Observed(h', mem', k) = Observed(h, mem, k)
        /\ IF growing(h) THEN h'.noverflow >= h.noverflow
           ELSE /\ h'.noverflow = h.noverflow
                /\ ret'.ptr = mapaccess2(t, h, mem, ret'.key).ptr

\* C29 as it holds: a put of a present key leaves noverflow unchanged when
\* no grow is in progress; the rest of the claim as stated.
C29_PutFrameOutsideGrow == [][PresentPutKeeps /\ AbsentPutFrame]_vars

\* the same-size script, a put of an absent key that began the grow, then a
\* put of key 27, present with eight more keys in its chain: its grow work
\* has moved the nine to the new array
C29_Witness ==
    /\ Running /\ ret.op = "put" /\ ret.key = 27 /\ script = <<>>
    /\ budget = MaxOps - 2 /\ h.count = 16 /\ h.B = 2
    /\ ~growing(h) /\ h.nevacuate = 4 /\ h.noverflow = 1

----------------------------------------------------------------------------
\* deletes that free the last cell of a bucket, and the first of an overflow
\* bucket, with nothing after it in the chain

\* on a table made with B = 2: eight keys of bucket 3, key 27 in the last cell
LastCellScript == PutRun(3, 4, 6) \o <<<<"put", 31, 1>>, <<"put", 27, 1>>>>

\* then a ninth key, which allocates the overflow bucket, deleted again, and
\* the key before 27 deleted: one emptyOne cell, key 27, an empty overflow
\* bucket
LastCellOverflowScript ==
    LastCellScript \o <<<<"put", 35, 1>>, <<"del", 35, 0>>, <<"del", 31, 0>>>>

\* key 27 alone in the overflow bucket, behind two emptyOne cells
FirstCellScript ==
    PutRun(3, 4, 6) \o <<<<"put", 31, 1>>, <<"put", 35, 1>>, <<"put", 27, 1>>,
                         <<"del", 31, 0>>, <<"del", 35, 0>>>>

LastCellScenarios ==
    {[type |-> ty, table |-> makemap(14), script |-> sc] :
        ty \in {IntType, IfaceType},
        sc \in {LastCellScript, LastCellOverflowScript, FirstCellScript}}

InitLastCell == InitWith(LastCellScenarios, MaxOps, <<>>)

SpecLastCell == InitLastCell /\ [][Next]_vars

\* the cells that come after cell c in the chain that starts at bucket b
CellsAfter(m, b, c) ==
    (ChainOf(m, b) \X Cells) \ (CellsBefore(m, b, c) \cup {<<c.b, c.i>>})

\* the cells of the chain from bucket b after which the chain holds no entry
Trailing(m, b) ==
    {d \in ChainOf(m, b) \X Cells :
        \A e \in CellsAfter(m, b, [b |-> d[1], i |-> d[2]]) :
            m[e[1]].tophash[e[2]] < minTopHash}

\* no chain of the current array has an emptyOne cell among its trailing cells
TrailingAreRest ==
    (Running /\ h.buckets # 0) =>
        \A b \in NewBuckets : \A d \in Trailing(mem, b) :
            mem[d[1]].tophash[d[2]] # emptyOne

\* a delete outside a grow that freed cell c: with an entry after it in the
\* chain the cell is emptyOne; with none, the cell and the run of emptyOne
\* cells that ends before it, across the buckets of the chain, are emptyRest
DeletePromotes ==
    (ret'.op = "del" /\ ret'.ok /\ ~ret'.panic /\ fatal' = "" /\ ~growing(h)) =>
        LET c == mapaccessK(t, h, mem, ret'.key).ptr
            b == HomeBucket(h, ret'.key)
            run == {d \in CellsBefore(mem, b, c) :
                       \A e \in {d} \cup (CellsAfter(mem, b, [b |-> d[1], i |-> d[2]])
                                              \cap CellsBefore(mem, b, c)) :
                           mem[e[1]].tophash[e[2]] = emptyOne}
        IN  IF <<c.b, c.i>> \in Trailing(mem, b)
            THEN /\ mem'[c.b].tophash[c.i] = emptyRest
                 /\ \A d \in run : mem'[d[1]].tophash[d[2]] = emptyRest
            ELSE mem'[c.b].tophash[c.i] = emptyOne

\* C30 - Between calls no chain of the current array has an emptyOne cell
\* with no occupied cell after it in chain order; delete sees to it: it turns
\* the freed cell and the emptyOne cells right before it into emptyRest,
\* back through the earlier buckets of the chain, whether the freed cell is
\* the last of its bucket or not.
C30_TrailingAreRest == []TrailingAreRest /\ [][DeletePromotes]_vars

\* the first free call has deleted key 27 out of the last cell of its bucket:
\* the overflow bucket behind it is empty, and the cell and the emptyOne cell
\* before it are emptyRest
C30_Witness ==
    /\ Running /\ ret.op = "del" /\ ret.ok /\ ret.key = 27
    /\ script = <<>> /\ budget = MaxOps - 1 /\ h.count = 6
    /\ \E b \in NewBuckets :
        /\ mem[b].overflow # 0
        /\ ~t.ptrdata /\ mem[b].keys[bucketCnt - 1] = 27
        /\ mem[b].tophash[bucketCnt - 1] = emptyRest
        /\ mem[b].tophash[bucketCnt - 2] = emptyRest
        /\ mem[b].tophash[bucketCnt - 3] >= minTopHash

\* the contexts that context d was derived from
RECURSIVE Ancestors(_, _)
Ancestors(cs, d) ==
    IF d = background \/ cs[d].Context = background THEN {}
    ELSE {cs[d].Context} \cup Ancestors(cs, cs[d].Context)

\* the contexts derived from c, at any depth, that their makers have returned
Derived(cs, c) == {d \in Ctxs : cs[d].made /\ c \in Ancestors(cs, d)}

\* p.children; the emptyCtx has none
Children(cs, p) == IF p = background THEN {} ELSE cs[p].children

\* the call of goroutine g to the CancelFunc, or of the timer to its
\* function, returns
CancelReturns(g) == cgs[g].op = "cancel" /\ cgs'[g].op = "idle"

\* when a cancel of c returns, every context derived from c has the error of
\* c and is in no children set
SameErrorBelow ==
    \A g \in Callers :
        CancelReturns(g) =>
            \A d \in Derived(ctxs', cgs[g].c) :
                /\ ctxs'[d].err = ctxs'[cgs[g].c].err
                /\ d \notin Children(ctxs', ctxs'[d].Context)

\* when a cancel of c returns, every context derived from c is cancelled and
\* in no children set
CancelledBelow ==
    \A g \in Callers :
        CancelReturns(g) =>
            /\ ctxs'[cgs[g].c].err # "nil"
            /\ \A d \in Derived(ctxs', cgs[g].c) :
                   /\ ctxs'[d].err # "nil"
                   /\ d \notin Children(ctxs', ctxs'[d].Context)

\* a context cancelled through its parent has the error of the parent
ParentError ==
    \A d \in Ctxs :
        ctxs[d].cause = "parent" =>
            /\ ctxs[d].Context # background
            /\ ctxs[d].err = ctxs[ctxs[d].Context].err

\* a step of goroutine g cancels only the context of its call and contexts
\* derived from it, and the cancel that cancelled context c has taken c out
\* of the children of its parent when it returns
DownwardOnly ==
    \A g \in Callers :
        /\ cgs'[g] # cgs[g] =>
               \A x \in Ctxs :
                   ctxs'[x].err # ctxs[x].err =>
                       \/ x = cgs[g].c
                       \/ cgs[g].c \in Ancestors(ctxs, x)
        /\ (CancelReturns(g) /\ cgs[g].won) =>
               cgs[g].c \notin Children(ctxs', ctxs[cgs[g].c].Context)

\* C21 - When a cancelCtx is cancelled, every context derived from it through
\* WithCancel or WithDeadline, at any depth, is cancelled with the same error
\* and is out of the children set by the time cancel returns; cancelling a
\* child never cancels its parent or its siblings and takes the child out of
\* the children of the parent.
C21_SameErrorBelow == [][SameErrorBelow /\ DownwardOnly]_vars

\* C21 as it holds: every derived context is cancelled by the time cancel
\* returns, with the error of its parent when its parent's cancel cancelled
\* it, and with the error of its own first cancel otherwise.
C21_CancelledBelow == []ParentError /\ [][CancelledBelow /\ DownwardOnly]_vars

\* context 1 was cancelled by its CancelFunc or deadline, and its child 2 and
\* grandchild 3 through it; every call has returned
C21_Witness ==
    /\ \A g \in Callers : cgs[g].op = "idle"
    /\ ctxs[1].cause = "own"
    /\ ctxs[2].made /\ ctxs[2].Context = 1 /\ ctxs[2].cause = "parent"
    /\ ctxs[3].made /\ ctxs[3].Context = 2 /\ ctxs[3].cause = "parent"
    /\ ctxs[3].err = ctxs[1].err

\* Err is nil exactly while Done is not closed
ErrIffClosed ==
    \A c \in Ctxs : ctxs[c].kind # "none" => (ctxs[c].err = "nil" <=> ~Closed(ctxs, c))

\* an error, once set, is the error every later Err returns
ErrKept == \A c \in Ctxs : ctxs[c].err # "nil" => ctxs'[c].err = ctxs[c].err

\* a cancel call that found its context cancelled changes no err and no
\* Done, and nothing at all when no other call is at work on the context
FurtherCancelNothing ==
    \A g \in Callers :
        (cgs[g].op = "cancel" /\ cgs'[g] # cgs[g] /\ ~cgs[g].won /\ ~cgs'[g].won) =>
            /\ \A c \in Ctxs : ctxs'[c].err = ctxs[c].err /\ ctxs'[c].done = ctxs[c].done
            /\ (\A g2 \in Callers \ {g} : \A i \in DOMAIN cgs[g2].st :
                    cgs[g2].st[i].c # cgs[g].c) => ctxs' = ctxs

\* C22 - Cancellation is idempotent and first-wins: after the first cancel of
\* a context, by its CancelFunc, by its parent or by its deadline, every
\* further cancel call does nothing; Err is nil exactly while Done is not
\* closed; once Err has returned an error every later Err returns the same.
C22_FirstCancelWins == []ErrIffClosed /\ [][ErrKept /\ FurtherCancelNothing]_vars

\* the deadline has cancelled a context, and a call of its CancelFunc, which
\* found it cancelled, is about to stop the timer
C22_Witness ==
    \E g \in Callers :
        /\ cgs[g].op = "cancel" /\ ~cgs[g].won /\ AtPc(g, "stop")
        /\ Top(g).err = Canceled
        /\ ctxs[cgs[g].c].err = DeadlineExceeded
        /\ Closed(ctxs, cgs[g].c)

----------------------------------------------------------------------------
(* The overflow counter and the overflow chains *)

\* the number of overflow buckets linked into the chains of the first n
\* buckets of the current array
RECURSIVE OverflowLinked(_, _, _)
OverflowLinked(hd, m, n) ==
    IF n = 0 \/ hd.buckets = 0 THEN 0
    ELSE Cardinality(ChainOf(m, hd.buckets + n - 1)) - 1 + OverflowLinked(hd, m, n - 1)

\* h.noverflow counts the overflow buckets of the current array
NoverflowExact ==
    (Running /\ h.B < 16) => h.noverflow = OverflowLinked(h, mem, bucketShift(h.B))

\* a delete that returned
DeleteDone == ret'.op = "del" /\ ~ret'.panic /\ fatal' = ""

\* a delete leaves h.noverflow as it was
DeleteKeepsNoverflow == DeleteDone => h'.noverflow = h.noverflow

\* a delete outside a grow leaves h.noverflow as it was, and a delete in a
\* grow never lowers it
DeleteKeepsNoverflowOutsideGrow ==
    DeleteDone =>
        /\ ~growing(h) => h'.noverflow = h.noverflow
        /\ h'.noverflow >= h.noverflow

\* C31 - While B < 16, noverflow is exact: in every state it is the number of
\* overflow buckets linked into the chains of the current bucket array, and
\* no delete changes it.
C31_NoverflowExact == []NoverflowExact /\ [][DeleteKeepsNoverflow]_vars

\* C31 as it holds: noverflow is exact in every state; a delete changes it
\* only by the overflow buckets that its evacuation of old buckets allocates.
C31_NoverflowExactDeleteOutsideGrow ==
    []NoverflowExact /\ [][DeleteKeepsNoverflowOutsideGrow]_vars

\* after a delete in a same-size grow: overflow buckets of the current
\* array that evacuate allocated are counted, next to old ones that are not
C31_Witness ==
    /\ Running /\ ret.op = "del" /\ ret.ok /\ growing(h) /\ IsSameSizeGrow(h)
    /\ h.noverflow >= 1
    /\ \E b \in OldBuckets : mem[b].overflow # 0

\* following the overflow links from bucket b reaches nil within n buckets
RECURSIVE ChainEnds(_, _, _)
ChainEnds(m, b, n) ==
    IF b = 0 THEN TRUE
    ELSE IF n = 0 THEN FALSE
    ELSE ChainEnds(m, m[b].overflow, n - 1)

\* the overflow buckets preallocated behind the current array of table hd
Pool(hd) ==
    IF hd.buckets = 0 THEN {}
    ELSE (hd.buckets + bucketShift(hd.B)) .. (hd.buckets + makeBucketArrayLen(hd.B) - 1)

\* the pool buckets not handed out yet
PoolLeft(hd) ==
    IF hd.extra.nextOverflow = 0 THEN {} ELSE {p \in Pool(hd) : p >= hd.extra.nextOverflow}

\* the buckets whose overflow link is bucket p, among the chains of the
\* current array
LinkedFrom(hd, m, p) ==
    {c \in UNION {ChainOf(m, b) : b \in hd.buckets .. (hd.buckets + bucketShift(hd.B) - 1)} :
        m[c].overflow = p}

\* every chain of the current array ends in nil and shares no bucket with
\* another chain
ChainsWellFormed ==
    (Running /\ h.buckets # 0) =>
        /\ \A b \in NewBuckets : ChainEnds(mem, b, Len(mem))
        /\ (\A b \in NewBuckets : ChainEnds(mem, b, Len(mem))) =>
               \A b1, b2 \in NewBuckets :
                   b1 # b2 => ChainOf(mem, b1) \cap ChainOf(mem, b2) = {}

\* the cursor stands in the pool; the buckets from the cursor on are zeroed
\* and linked from no chain, the last of them carrying the sentinel; the
\* buckets before the cursor are each linked from one bucket
PoolWellFormed ==
    (Running /\ h.buckets # 0 /\ \A b \in NewBuckets : ChainEnds(mem, b, Len(mem))) =>
        /\ h.extra.nextOverflow # 0 => h.extra.nextOverflow \in Pool(h)
        /\ \A p \in PoolLeft(h) :
               /\ LinkedFrom(h, mem, p) = {}
               /\ mem[p] = [ZeroBucket EXCEPT
                                !.overflow = IF p + 1 \in Pool(h) THEN 0 ELSE h.buckets]
        /\ \A p \in Pool(h) \ PoolLeft(h) :
               /\ Cardinality(LinkedFrom(h, mem, p)) <= 1
               /\ mem[p].overflow # h.buckets

\* a call that keeps the array and does not clear it hands the pool out in
\* address order: the cursor moves up past the buckets handed out, or to nil
\* past the last one, whose link the call leaves nil or at a bucket allocated
\* later; with the pool used up, every overflow bucket is allocated anew
HandedOutInOrder ==
    (fatal' = "" /\ ret'.op = "put" /\ h.buckets # 0 /\ h'.buckets = h.buckets) =>
        /\ PoolLeft(h') \subseteq PoolLeft(h)
        /\ \A p \in PoolLeft(h) \ PoolLeft(h') :
               /\ \A q \in PoolLeft(h') : p < q
               /\ Cardinality(LinkedFrom(h', mem', p)) = 1
               /\ mem'[p].overflow # h.buckets
        /\ h'.noverflow - h.noverflow =
               Cardinality(PoolLeft(h) \ PoolLeft(h')) + Len(mem') - Len(mem)

\* C32 - Overflow chains are well formed: every preallocated pool bucket is
\* handed out at most once and in address order, the sentinel link of the
\* last pool bucket is reset to nil when it is handed out, after which
\* overflow buckets are allocated one by one, and in every state every
\* chain of the current array is finite, ends in nil and shares no bucket
\* with another chain.
C32_ChainsWellFormed ==
    [](ChainsWellFormed /\ PoolWellFormed) /\ [][HandedOutInOrder]_vars

\* the pool of two buckets is used up, both are the overflow buckets of
\* chains, and a third overflow bucket was allocated behind the array
C32_Witness ==
    /\ Running /\ h.B = 5 /\ h.extra.nextOverflow = 0 /\ h.noverflow = 3
    /\ \A p \in Pool(h) : Cardinality(LinkedFrom(h, mem, p)) = 1
    /\ \E b \in NewBuckets : mem[b].overflow > h.buckets + makeBucketArrayLen(h.B) - 1

\* evacuate has cleared the keys and elems of bucket b: cells marked as
\* moved that hold no key
ClearedBucket(m, b) ==
    /\ evacuated(m, b)
    /\ \E c \in Cells : m[b].tophash[c] \in {evacuatedX, evacuatedY} /\ m[b].keys[c] = 0

\* the cells of bucket it.bptr that the next mapiternext goes through
CellsAhead(x) == {(j + x.offset) % bucketCnt : j \in x.i .. (bucketCnt - 1)}

\* the range loop stands in a bucket that evacuate has cleared, before a
\* cell of it whose key the next mapiternext reads
StandsInCleared ==
    /\ Running /\ it.hasH /\ it.key # NilPtr /\ it.bptr # 0
    /\ ClearedBucket(mem, it.bptr)
    /\ \E c \in CellsAhead(it) : mem[it.bptr].tophash[c] \in {evacuatedX, evacuatedY}

\* C33 - An iterator never reads key or value cells of a bucket whose memory
\* evacuate has cleared: no bucket is cleared while an iterator that can
\* still traverse it exists, for every sequence of iterators and grows,
\* two successive grows during one iteration included.
C33_NoClearedRead == ~StandsInCleared

----------------------------------------------------------------------------
(* sync.Mutex: wake-ups *)

\* the goroutines blocked in runtime_SemacquireMutex
Sleepers == {g \in DOMAIN lk : lk[g].pc = "sleep"}

\* a wake-up is on its way: the semaphore holds a release, a goroutine is
\* marked woken or has been woken, or an Unlock has not returned yet
WakeupPending ==
    \/ mu.sema > 0
    \/ HasBit(mu.state, mutexWoken)
    \/ \E g \in DOMAIN lk : lk[g].pc \in {"wake", "reload", "release", "woken", "handoff"}

\* while goroutines are blocked and no goroutine has the mutex locked, a
\* wake-up is on its way
NoLostWakeup ==
    (Sleepers # {} /\ ~HasBit(mu.state, mutexLocked)) => WakeupPending

\* goroutine g is blocked in Lock while the mutex is not locked
BlockedWhileFree(g) == lk[g].pc = "sleep" /\ ~HasBit(mu.state, mutexLocked)

\* C34 - sync.Mutex loses no wake-up: whenever the mutex is released while
\* goroutines are blocked in Lock, a waiter is woken or handed the mutex
\* unless another goroutine holds it or is marked woken; with holders that
\* unlock and a fair scheduler no goroutine stays blocked in Lock forever
\* while the mutex is free; the inconsistent-state checks never fire.
C34_NoLostWakeup ==
    /\ [](fatal = "" /\ NoLostWakeup)
    /\ \A g \in Lockers : ~<>[]BlockedWhileFree(g)

\* a goroutine sleeps, the mutex was unlocked, and the release of the
\* semaphore that wakes the sleeper is pending
C34_Witness ==
    /\ Sleepers # {} /\ ~HasBit(mu.state, mutexLocked)
    /\ mu.sema = 1 /\ HasBit(mu.state, mutexWoken)
    /\ \A g \in DOMAIN lk : lk[g].pc \in {"idle", "sleep"}

----------------------------------------------------------------------------
(* Package context: a context made while its parent is cancelled *)

\* the frames of the calls in progress
Frames == UNION {{cgs[g].st[i] : i \in 1 .. Len(cgs[g].st)} : g \in Callers}

\* the contexts derived from a cancelCtx or timerCtx, made or in the making
Children0 == {c \in Ctxs : ctxs[c].kind # "none" /\ ctxs[c].Context # background}

\* a cancel of context c with the error of its parent is on its way:
\* propagateCancel has still to take p.mu, child.cancel(false, p.err) has
\* been called, or the loop of the parent's cancel has c still to visit
CancelPending(c) ==
    \E f \in Frames :
        \/ f.c = c /\ f.pc = "link"
        \/ f.c = c /\ f.pc = "lock" /\ ~f.rm /\ f.err = ctxs[ctxs[c].Context].err
        \/ f.c = ctxs[c].Context /\ f.pc = "range" /\ c \in f.todo

\* no child is missed: a child that is not cancelled is in the children of
\* its parent once propagateCancel is through while the parent is not
\* cancelled, and has a cancel on its way when the parent is cancelled
NeverMissed ==
    \A c \in Children0 :
        ctxs[c].err = "nil" =>
            IF ctxs[ctxs[c].Context].err = "nil"
            THEN c \in ctxs[ctxs[c].Context].children
                    \/ \E f \in Frames : f.c = c /\ f.pc = "link"
            ELSE CancelPending(c)

\* the context whose mutex the top frame of goroutine g is about to take, 0
\* when its next step takes none
Wants(g) ==
    IF cgs[g].st = <<>> THEN 0
    ELSE IF Top(g).pc \in {"lock", "stop"} THEN Top(g).c
    ELSE IF Top(g).pc \in {"link", "remove"} THEN ctxs[Top(g).c].Context
    ELSE IF Top(g).pc = "after" /\ ctxs[Top(g).c].kind = "timerCtx"
            /\ ctxs[Top(g).c].deadline > now THEN Top(g).c
    ELSE 0

\* the mutexes are taken parent-then-child: a goroutine that goes for the
\* mutex of context y holds none but those of contexts y is derived from
LockOrder ==
    \A g \in Callers : \A x \in Ctxs :
        (ctxs[x].mu = g /\ Wants(g) # 0) => x \in Ancestors(ctxs, Wants(g))

\* the next step of the call of goroutine g
Advance(g) ==
    \/ Link(g)
    \/ Unlock_p(g)
    \/ Until(g)
    \/ Expired(g)
    \/ CancelLock(g)
    \/ RangeEnd(g)
    \/ RemoveChild(g)
    \/ StopTimer(g)
    \/ \E c \in Ctxs : RangeChild(g, c)

\* while calls are in progress one of them can take its next step
NoDeadlock ==
    (\E g \in Callers : cgs[g].op # "idle") =>
        \E g \in Callers : cgs[g].op # "idle" /\ ENABLED Advance(g)

\* every call has returned
Quiet == \A g \in Callers : cgs[g].op = "idle"

\* the CancelFunc of context c cancelled it
OwnCancelFunc(c) == ctxs[c].cause = "own" /\ ctxs[c].err = Canceled

\* with every call returned, the children of a cancelled context that their
\* CancelFunc did not cancel have its error
ParentErrorAtEnd ==
    Quiet => \A c \in Children0 :
                 (ctxs[ctxs[c].Context].err # "nil" /\ ~OwnCancelFunc(c)) =>
                     ctxs[c].err = ctxs[ctxs[c].Context].err

\* with every call returned, the children of a cancelled context are
\* cancelled, with its error unless their own deadline or CancelFunc
\* cancelled them first
CancelledAtEnd ==
    Quiet => \A c \in Children0 :
                 ctxs[ctxs[c].Context].err # "nil" =>
                     /\ ctxs[c].err # "nil"
                     /\ ctxs[c].cause # "own" => ctxs[c].err = ctxs[ctxs[c].Context].err

\* C35 - A child context is never missed by a concurrent cancel of its
\* parent: for every interleaving of WithCancel or WithDeadline(parent) with
\* cancel of the parent, the child ends up cancelled with the error of the
\* parent, since propagateCancel finds the parent cancelled or puts the child
\* in parent.children before cancel goes through them; cancel never
\* deadlocks, the mutexes being taken parent-then-child only.
C35_ChildNeverMissed == NeverMissed /\ LockOrder /\ NoDeadlock /\ ParentErrorAtEnd

\* C35, amended - as C35, but a child whose own deadline (passed when
\* WithDeadline was called, or reached later) or CancelFunc cancelled it
\* first ends up with the error of that cancel.
C35_ChildNeverMissedOwnFirst == NeverMissed /\ LockOrder /\ NoDeadlock /\ CancelledAtEnd

\* WithCancel(ctx1) has put ctx2 in the children of ctx1 and has not
\* returned; a cancel of ctx1 on the other goroutine holds the mutex of ctx1
\* and has ctx2 still to visit
C35_Witness ==
    /\ ctxs[2].Context = 1 /\ ~ctxs[2].made /\ ctxs[2].err = "nil"
    /\ AtPc(1, "after") /\ Top(1).c = 2
    /\ ctxs[1].mu = 2 /\ ctxs[1].err = Canceled
    /\ AtPc(2, "range") /\ Top(2).c = 1 /\ 2 \in Top(2).todo

----------------------------------------------------------------------------
(* Where the entries are during a grow *)

\* the buckets of the current array that evacuate moves old bucket j to
Destinations(j) ==
    IF IsSameSizeGrow(h) THEN {h.buckets + j}
    ELSE {h.buckets + j, h.buckets + j + noldbuckets(h)}

\* the chains of the destinations of an unevacuated old bucket hold no entry
DestinationsEmpty ==
    (Running /\ growing(h)) =>
        \A j \in 0 .. (noldbuckets(h) - 1) :
            ~evacuated(mem, h.oldbuckets + j) =>
                \A d \in Destinations(j) : LiveCells(mem, d) = {}

\* the chains a lookup can be sent to: those of the current array and of the
\* old buckets that are not evacuated
SearchedHeads ==
    NewBuckets \cup (IF growing(h) THEN {b \in OldBuckets : ~evacuated(mem, b)} ELSE {})

\* every entry lies in the one chain that a lookup of its key searches
LookupSeesAll ==
    Running =>
        \A b \in SearchedHeads : \A c \in LiveCells(mem, b) :
            LET k == mem[c[1]].keys[c[2]]
            IN  ~IsNaN(k) => c \in LiveCells(mem, lookupBucket(h, mem, hasher(k)))

\* C36 - While old bucket j is unevacuated, its destination buckets in the
\* current array (j, and j + old size in a doubling grow) and their chains
\* hold no entry; hence a lookup that searches only the unevacuated old
\* bucket, or only the current bucket when the old one is evacuated, sees
\* every entry that hashes there.
C36_DestinationsEmpty == DestinationsEmpty /\ LookupSeesAll

\* a doubling grow of four buckets: an unevacuated old bucket with entries
\* and empty destinations next to an evacuated one with entries in both of
\* its destinations
C36_Witness ==
    /\ Running /\ growing(h) /\ ~IsSameSizeGrow(h) /\ noldbuckets(h) = 4
    /\ ret.op = "put"
    /\ \E j1, j2 \in 0 .. 3 :
        /\ ~evacuated(mem, h.oldbuckets + j1)
        /\ LiveCells(mem, h.oldbuckets + j1) # {}
        /\ \A d \in Destinations(j1) : LiveCells(mem, d) = {}
        /\ evacuated(mem, h.oldbuckets + j2)
        /\ \A d \in Destinations(j2) : LiveCells(mem, d) # {}

\* the cells of the searched chains that hold an entry with key k
CellsOf(k) ==
    {c \in UNION {LiveCells(mem, b) : b \in SearchedHeads} : mem[c[1]].keys[c[2]] = k}

\* the cells of the searched chains that an entry with key k was deleted from
\* and that still hold the key
FreedCellsOf(k) ==
    {c \in UNION {ChainOf(mem, b) \X Cells : b \in SearchedHeads} :
        isEmpty(mem[c[1]].tophash[c[2]]) /\ mem[c[1]].keys[c[2]] = k}

\* C37 - Key uniqueness: between operations no reflexive key occupies two
\* live cells, counting the cells of the chains of the current array and of
\* the unevacuated old buckets, for any sequence of put, delete (also delete
\* followed by re-insert), grow and evacuation.
C37_KeyUnique ==
    Running => \A k \in Keys \cup {TrapKey, EqTrapKey} : Cardinality(CellsOf(k)) <= 1

\* after a doubling grow to eight buckets a key that was deleted from the
\* array it was evacuated to has been put again, into another cell: the cell
\* it was deleted from still holds it
C37_Witness ==
    /\ Running /\ ~growing(h) /\ h.B = 3 /\ h.nevacuate = 4
    /\ ret.op = "put" /\ ~t.ptrdata
    /\ Cardinality(CellsOf(ret.key)) = 1
    /\ FreedCellsOf(ret.key) # {}

\* the reflexive keys in the cells of the chain of bucket b hash to index i
\* under the mask of an array of n buckets, and their cells have the tophash
\* of their hash
RoutedTo(b, i, n) ==
    \A c \in LiveCells(mem, b) :
        LET k == mem[c[1]].keys[c[2]]
        IN  ~IsNaN(k) =>
                /\ hasher(k) % n = i
                /\ mem[c[1]].tophash[c[2]] = tophash(hasher(k))

\* hash values with every top byte below 128 (above it the hash does not
\* fit a signed word of PtrSize bytes), and low bits of either parity
TopBytes == {top * Pow2(PtrSize * 8 - 8) + low : top \in 0 .. 127, low \in 0 .. 1}

\* C38 - Routing invariant: between operations each occupied cell in bucket
\* i (or its overflow chain) of the current array holds a reflexive key k
\* with hash(k) & (2^B - 1) = i and a tophash byte equal to
\* tophash(hash(k)), which is >= minTopHash for every hash value; each
\* occupied cell of unevacuated old bucket j holds a key with
\* hash(k) & oldmask = j.
C38_Routing ==
    /\ \A hash \in TopBytes : tophash(hash) \in minTopHash .. 255
    /\ Running =>
           /\ h.buckets # 0 =>
                  \A i \in 0 .. (bucketShift(h.B) - 1) :
                      RoutedTo(h.buckets + i, i, bucketMask(h.B) + 1)
           /\ growing(h) =>
                  \A j \in 0 .. (noldbuckets(h) - 1) :
                      ~evacuated(mem, h.oldbuckets + j) =>
                          RoutedTo(h.oldbuckets + j, j, oldbucketmask(h) + 1)

\* a doubling grow of four buckets: an unevacuated old bucket holds entries,
\* an evacuated one has sent entries to the upper half of the current
\* array, and a cell holds a key whose top hash byte was raised to
\* minTopHash or above
C38_Witness ==
    /\ Running /\ growing(h) /\ ~IsSameSizeGrow(h) /\ noldbuckets(h) = 4
    /\ \E j \in 0 .. 3 :
        ~evacuated(mem, h.oldbuckets + j) /\ LiveCells(mem, h.oldbuckets + j) # {}
    /\ \E i \in 4 .. 7 : \E c \in LiveCells(mem, h.buckets + i) :
        tophashRaw(hasher(mem[c[1]].keys[c[2]])) < minTopHash

----------------------------------------------------------------------------
(* The internal assertions under a single writer *)

\* what hashGrow makes of the table when a write, its flag set, calls it
GrownNow == hashGrow(St([h EXCEPT !.flags = SetBit(h.flags, hashWriting)], mem, ""))

\* hashGrow, called as mapassign calls it, finds no old overflow registry,
\* keeps hashWriting and moves iterator to oldIterator
GrowKeepsWriting ==
    (Running /\ ~growing(h) /\ h.buckets # 0) =>
        \A g \in {GrownNow} :
            /\ g.fatal = ""
            /\ HasBit(g.h.flags, hashWriting)
            /\ ~HasBit(g.h.flags, iterator)
            /\ HasBit(g.h.flags, oldIterator) <=> HasBit(h.flags, iterator)

\* C39 - Under a single writer the internal assertions are unreachable for
\* every sequence of operations: evacuate meets no non-empty cell with
\* tophash < minTopHash ("bad map state"), hashGrow finds no old overflow
\* registry ("oldoverflow is not nil"), and the exit checks of put, delete
\* and clear find hashWriting still set; hashGrow, which rewrites the flags
\* and moves the iterator bit to oldIterator, keeps it.
C39_NoAssertionFires ==
    /\ fatal = ""
    /\ ~HasBit(h.flags, hashWriting)
    /\ GrowKeepsWriting

\* a put has started a grow on a table an iterator was running on: the
\* iterator bit has moved to oldIterator and the overflow registry has
\* become the old one
C39_Witness ==
    /\ Running /\ growing(h) /\ ret.op = "put"
    /\ HasBit(h.flags, oldIterator) /\ ~HasBit(h.flags, iterator)
    /\ ~h.extra.isnil /\ h.extra.oldoverflow # NilReg

----------------------------------------------------------------------------
(* The grows of one put *)

\* the table at the first search of mapassign(key): the flag set, the first
\* bucket allocated, the grow work done
FirstPass(key) ==
    LET s0 == St([h EXCEPT !.flags = SetBit(h.flags, hashWriting)], mem, "")
        s1 == IF h.buckets = 0
              THEN [s0 EXCEPT !.mem = Alloc(s0.mem, 1), !.h.buckets = Len(s0.mem) + 1]
              ELSE s0
    IN  IF growing(s1.h) THEN growWork(t, s1, MaskHash(hasher(key), s1.h.B)) ELSE s1

\* mapassign(key) finds no cell with the key and starts a grow
GrowsAtFirst(key) ==
    \E s1 \in {FirstPass(key)} :
        /\ s1.fatal = ""
        /\ ~assignLoop(s1.mem, s1.h.buckets + MaskHash(hasher(key), s1.h.B), 0, key,
                       tophash(hasher(key)), NilPtr).found
        /\ needGrow(s1.h)

\* the table at the second search: after hashGrow and the grow work that
\* follows the label again
SecondPass(key) ==
    CHOOSE s2 \in
        {growWork(t, g, MaskHash(hasher(key), g.h.B)) :
            g \in {hashGrow(FirstPass(key))}} : TRUE

\* C40 - A single put terminates and starts at most one grow: after
\* hashGrow and the restart at the label again the grow condition is not
\* met a second time in the same call, also when the grow work completes
\* the new grow at once (an old array of one or two buckets), so that no
\* grow is in progress again.
C40_OneGrowPerPut ==
    Running =>
        \A key \in Keys :
            GrowsAtFirst(key) =>
                \E s2 \in {SecondPass(key)} : s2.fatal = "" /\ ~needGrow(s2.h)

\* the put of a new key into a table of two buckets with two overflow
\* buckets has returned: it started a same-size grow, and its grow work
\* evacuated both old buckets, into a chain with one overflow bucket
C40_Witness ==
    /\ Running /\ ret.op = "put" /\ ret.key = 1
    /\ script = <<>> /\ budget = MaxOps - 1
    /\ ~growing(h) /\ h.B = 1 /\ h.nevacuate = 2
    /\ h.noverflow = 1 /\ h.count = 12

====
